---- MODULE Spec2Model ----
(***************************************************************************)
(* Turn/phase state machine of BattleSimulator (battle_simulator.py).      *)
(*                                                                         *)
(* Geometry: every unit and objective stands on the centre line of the     *)
(* battlefield, so a Position is its coordinate along the length of the    *)
(* table.  Coordinates are fixed-point numbers with Scale grid steps per   *)
(* inch; the float value nan (0/0 in the charge move) is the value NaN,    *)
(* and every comparison with NaN is false, as in IEEE arithmetic.          *)
(* Dice are nondeterministic: a roll of n dice against a threshold yields  *)
(* any number of successes the faces 1..6 can produce.                     *)
(***************************************************************************)
EXTENDS Integers, Sequences, FiniteSets, TLC

\* ------------------------------------------------------------------ bounds
MaxTurns == 2
MaxStat == 10       \* strength and toughness values range over 1..MaxStat
MaxDice == 4        \* dice notations have a multiplier of at most MaxDice
MaxConst == 11      \* and a constant between -MaxConst and MaxConst
MaxRuns == 2        \* simulate_attack_sequence is called with 1..MaxRuns runs

\* ------------------------------------------------------- numeric helpers
Scale == 4
NaN == 0 - 99999

Abs(x) == IF x < 0 THEN 0 - x ELSE x
Min(a, b) == IF a <= b THEN a ELSE b
Max(a, b) == IF a >= b THEN a ELSE b
Sgn(x) == IF x > 0 THEN 1 ELSE IF x < 0 THEN 0 - 1 ELSE 0

\* Position.distance_to; nan propagates
Distance(a, b) == IF a = NaN \/ b = NaN THEN NaN ELSE Abs(a - b)

\* float comparisons: false as soon as an operand is nan
FLe(d, x) == d # NaN /\ x # NaN /\ d <= x
FLt(d, x) == d # NaN /\ x # NaN /\ d < x
FGt(d, x) == d # NaN /\ x # NaN /\ d > x
FGe(d, x) == d # NaN /\ x # NaN /\ d >= x

\* Python's max(0, v): v replaces 0 only when v > 0, so max(0, nan) = 0
PyMax0(v) == IF v # NaN /\ v > 0 THEN v ELSE 0

\* ------------------------------------------------------------ enumerations
\* the values the save step is called with: Sv 2+..7+, AP 0..-3, invulnerable
\* save none (0) or 2+..6+
SaveValues == 2..7
ApValues == (0 - 3)..0
InvulnValues == {0} \cup 2..6

Phases == <<"Command", "Movement", "Shooting", "Charge", "Fight">>
PhaseSet == {Phases[i] : i \in 1..Len(Phases)}
UnitStates == {"Active", "Fall Back", "Battle-shocked", "Destroyed"}

\* ------------------------------------------------------------- dice model
\* A str is the sequence of its characters.
Digits == <<"0", "1", "2", "3", "4", "5", "6", "7", "8", "9">>
IsDigit(c) == \E k \in 1..10 : Digits[k] = c
DigitVal(c) == (CHOOSE k \in 1..10 : Digits[k] = c) - 1

\* str(n) for n >= 0, and for any integer
RECURSIVE NatText(_)
NatText(n) == IF n < 10 THEN <<Digits[n + 1]>>
              ELSE NatText(n \div 10) \o <<Digits[(n % 10) + 1]>>
IntText(n) == IF n < 0 THEN <<"-">> \o NatText(0 - n) ELSE NatText(n)

\* The dice notation "kDs+c" or "kDs-c" (k = 0: no multiplier written), and the
\* plain integer "c" when sides = 0.
Dice(k, s, c) ==
    IF s = 0 THEN IntText(c)
    ELSE (IF k = 0 THEN <<>> ELSE NatText(k)) \o <<"D", Digits[s + 1]>>
         \o (IF c > 0 THEN <<"+">> \o NatText(c)
             ELSE IF c < 0 THEN <<"-">> \o NatText(0 - c) ELSE <<>>)

\* the value that stands for a raised ValueError
ValueError == 0 - 77777

\* str.upper() and str.strip() on the characters that occur
UpperChar(c) == IF c = "d" THEN "D" ELSE IF c = "n" THEN "N" ELSE IF c = "a" THEN "A" ELSE c
RECURSIVE upper(_)
upper(str) == IF str = <<>> THEN <<>> ELSE <<UpperChar(Head(str))>> \o upper(Tail(str))
RECURSIVE lstrip(_)
lstrip(str) == IF str # <<>> /\ Head(str) = " " THEN lstrip(Tail(str)) ELSE str
RECURSIVE rstrip(_)
rstrip(str) == IF str # <<>> /\ str[Len(str)] = " "
               THEN rstrip(SubSeq(str, 1, Len(str) - 1)) ELSE str
strip(str) == rstrip(lstrip(str))

\* the value of a sequence of digits
RECURSIVE DigitsValue(_)
DigitsValue(str) ==
    IF str = <<>> THEN 0
    ELSE DigitsValue(SubSeq(str, 1, Len(str) - 1)) * 10 + DigitVal(str[Len(str)])

\* int(str): optional sign and at least one digit, blanks around it allowed
py_int(str) ==
    LET t == strip(str)
        body == IF t # <<>> /\ t[1] \in {"+", "-"} THEN Tail(t) ELSE t
    IN  IF body = <<>> \/ \E i \in 1..Len(body) : ~IsDigit(body[i]) THEN ValueError
        ELSE IF t[1] = "-" THEN 0 - DigitsValue(body) ELSE DigitsValue(body)

\* "c in str", "ab in str", str.split(c)[0], str.replace(c, ''), str.replace(ab, '')
Contains(str, c) == \E i \in 1..Len(str) : str[i] = c
ContainsPair(str, a, b) == \E i \in 1..(Len(str) - 1) : str[i] = a /\ str[i + 1] = b
RECURSIVE BeforeFirst(_, _)
BeforeFirst(str, c) ==
    IF str = <<>> \/ Head(str) = c THEN <<>>
    ELSE <<Head(str)>> \o BeforeFirst(Tail(str), c)
Remove(str, c) == SelectSeq(str, LAMBDA x : x # c)
RECURSIVE RemovePair(_, _, _)
RemovePair(str, a, b) ==
    IF Len(str) < 2 THEN str
    ELSE IF str[1] = a /\ str[2] = b THEN RemovePair(Tail(Tail(str)), a, b)
    ELSE <<Head(str)>> \o RemovePair(Tail(str), a, b)

\* notation.replace('+', ' +').replace('-', ' -').split(): cur is the part
\* being read, acc the parts read
RECURSIVE SignedParts(_, _, _)
SignedParts(str, cur, acc) ==
    LET flushed == IF cur = <<>> THEN acc ELSE Append(acc, cur)
    IN  IF str = <<>> THEN flushed
        ELSE IF Head(str) = " " THEN SignedParts(Tail(str), <<>>, flushed)
        ELSE IF Head(str) \in {"+", "-"} THEN SignedParts(Tail(str), <<Head(str)>>, flushed)
        ELSE SignedParts(Tail(str), Append(cur, Head(str)), acc)

\* twice what one part adds to total in _parse_dice_notation, or ValueError
part_value(part) ==
    LET head == BeforeFirst(part, "D")
        num_dice == IF head # <<>> THEN py_int(head) ELSE 1
        number == py_int(Tail(part))
    IN  IF ContainsPair(part, "D", "6")
        THEN IF num_dice = ValueError THEN ValueError ELSE 7 * num_dice
        ELSE IF ContainsPair(part, "D", "3")
        THEN IF num_dice = ValueError THEN ValueError ELSE 4 * num_dice
        ELSE IF part[1] = "+"
        THEN IF number = ValueError THEN ValueError ELSE 2 * number
        ELSE IF part[1] = "-"
        THEN IF number = ValueError THEN ValueError ELSE 0 - 2 * number
        ELSE 0

\* twice the total of the parts, or ValueError
RECURSIVE parts_total(_)
parts_total(parts) ==
    IF parts = <<>> THEN 0
    ELSE LET v == part_value(Head(parts))
             rest == parts_total(Tail(parts))
         IN  IF v = ValueError \/ rest = ValueError THEN ValueError ELSE v + rest

\* int(x) of the float x = twice / 2: towards zero
trunc_half(twice) == IF twice >= 0 THEN twice \div 2 ELSE 0 - ((0 - twice) \div 2)

\* _parse_dice_notation with round() for int()
parse_dice_notation_rounded(notation) ==
    LET n == strip(upper(notation))
        twice == parts_total(SignedParts(n, <<>>, <<>>))
    IN  IF ~Contains(n, "D") THEN py_int(n)
        ELSE IF twice = ValueError THEN ValueError
        ELSE Max(1, (twice + 1) \div 2)

\* BattleSimulator._parse_dice_notation: the average, truncated, at least 1
parse_dice_notation(notation) ==
    LET n == strip(upper(notation))
        twice == parts_total(SignedParts(n, <<>>, <<>>))
    IN  IF ~Contains(n, "D") THEN py_int(n)
        ELSE IF twice = ValueError THEN ValueError
        ELSE Max(1, trunc_half(twice))

\* combat_simulator.calculate_wound_requirement
calculate_wound_requirement(strength, toughness) ==
    IF strength >= toughness * 2 THEN 2
    ELSE IF strength > toughness THEN 3
    ELSE IF strength = toughness THEN 4
    ELSE IF strength < toughness /\ strength * 2 > toughness THEN 5
    ELSE 6

\* _calculate_wound_roll with ">=" for ">" in the test for 5
calculate_wound_roll_half(strength, toughness) ==
    IF strength >= toughness * 2 THEN 2
    ELSE IF strength > toughness THEN 3
    ELSE IF strength = toughness THEN 4
    ELSE IF strength * 2 >= toughness THEN 5
    ELSE 6

\* BattleSimulator._calculate_wound_roll
calculate_wound_roll(strength, toughness) ==
    IF strength >= toughness * 2 THEN 2
    ELSE IF strength > toughness THEN 3
    ELSE IF strength = toughness THEN 4
    ELSE IF strength * 2 > toughness THEN 5
    ELSE 6

\* roster_to_battle.parse_stat_value
parse_stat_value(value, default) ==
    LET v == upper(strip(value))
        number == py_int(Remove(v, "+"))
    IN  IF v \in {<<"-">>, <<"N", "/", "A">>, <<>>} THEN default
        ELSE IF number = ValueError THEN default
        ELSE number

\* str.split('+'): cur is the piece being read, acc the pieces read
RECURSIVE SplitPlus(_, _, _)
SplitPlus(str, cur, acc) ==
    IF str = <<>> THEN Append(acc, cur)
    ELSE IF Head(str) = "+" THEN SplitPlus(Tail(str), <<>>, Append(acc, cur))
    ELSE SplitPlus(Tail(str), Append(cur, Head(str)), acc)

\* sum(np.random.randint(1, sides + 1) for _ in range(num_dice)) + modifier
dice_sums(num_dice, sides, modifier) ==
    IF num_dice <= 0 THEN {modifier}
    ELSE {total + modifier : total \in num_dice..(num_dice * sides)}

\* the "D3" and "D6" branches of parse_dice_value
rolled_dice_value(v, sides) ==
    LET parts == SplitPlus(v, <<>>, <<>>)
        base == parts[1]
        modifier == IF Len(parts) > 1 THEN py_int(parts[2]) ELSE 0
        num_dice == py_int(RemovePair(base, "D", Digits[sides + 1]))
    IN  IF modifier = ValueError THEN {ValueError}
        ELSE IF base = <<"D", Digits[sides + 1]>> THEN dice_sums(1, sides, modifier)
        ELSE IF sides = 6 /\ base # <<>> /\ base[1] = "D" THEN dice_sums(1, sides, modifier)
        ELSE IF num_dice = ValueError THEN {ValueError}
        ELSE dice_sums(num_dice, sides, modifier)

\* combat_simulator.parse_dice_value: every value it can return (it rolls)
parse_dice_value(value) ==
    LET v == upper(strip(value))
    IN  IF value = <<>> \/ value = <<"-">> THEN {0}
        ELSE IF ContainsPair(v, "D", "3") THEN rolled_dice_value(v, 3)
        ELSE IF ContainsPair(v, "D", "6") THEN rolled_dice_value(v, 6)
        ELSE IF py_int(v) = ValueError THEN {1}
        ELSE {py_int(v)}

\* np.sum(rolls >= threshold) over n dice with faces 1..6
Successes(n, threshold) ==
    IF threshold > 6 THEN {0}
    ELSE IF threshold <= 1 THEN {n}
    ELSE 0..n

\* np.sum(rolls < threshold) over n dice with faces 1..6
Failures(n, threshold) ==
    IF threshold > 6 THEN {n}
    ELSE IF threshold <= 1 THEN {0}
    ELSE 0..n

\* the sums two dice can show: np.random.randint(1, 7) + np.random.randint(1, 7)
TwoD6 == {a + b : a \in 1..6, b \in 1..6}

\* ------------------------------------------------------------ the rosters
\* BattleWeapon
Weapon(ranged, rng, attacks, skill, strength, ap, damage) ==
    [is_ranged |-> ranged, range |-> rng, attacks |-> attacks, bs_ws |-> skill,
     strength |-> strength, ap |-> ap, damage |-> damage]

Bolter == Weapon(TRUE, 12, Dice(0, 0, 1), 3, 4, 0, Dice(0, 0, 1))
Cannon == Weapon(TRUE, 24, Dice(0, 0, 1), 3, 8, 0 - 1, Dice(0, 3, 0))
Knife  == Weapon(FALSE, 1, Dice(0, 0, 1), 3, 4, 0, Dice(0, 0, 1))
Fist   == Weapon(FALSE, 1, Dice(0, 0, 2), 3, 8, 0 - 2, Dice(0, 0, 2))

\* _parse_dice_notation on the attacks and damage of these weapons, evaluated once
weapon_dice ==
    [notation \in UNION {{w.attacks, w.damage} : w \in {Bolter, Cannon, Knife, Fist}}
        |-> parse_dice_notation(notation)]

\* BattleUnit with its BattleUnitStats: the fields that never change in a battle
\* (invuln_save = 0 is None)
Unit(player, m, t, sv, w, ld, oc, inv, count, ranged, melee, char, pts) ==
    [player_id |-> player, movement |-> m, toughness |-> t, save |-> sv,
     wounds |-> w, leadership |-> ld, oc |-> oc, invuln_save |-> inv,
     model_count |-> count, wounds_per_model |-> w,
     ranged_weapons |-> ranged, melee_weapons |-> melee,
     is_character |-> char, points_cost |-> pts]

\* Objective: position (inches) and value
Obj(pos, value) == [position |-> pos * Scale, value |-> value]

\* A scenario: the units in add_unit order, the objectives of the battlefield,
\* and the positions (inches) each side's deployment zone can yield
Scenarios == <<
    [units |-> << Unit(0, 6, 4, 3, 1, 6, 2, 0, 2, <<Bolter>>, <<Knife>>, FALSE, 100),
                  Unit(1, 6, 4, 3, 1, 6, 2, 0, 2, <<Bolter>>, <<Knife>>, FALSE, 100) >>,
     objectives |-> << Obj(18, 5) >>,
     deploy |-> << {10, 14}, {16, 26} >>],
    [units |-> << Unit(0, 5, 4, 3, 1, 7, 1, 0, 2, <<Cannon>>, <<>>, FALSE, 100),
                  Unit(0, 6, 5, 2, 4, 6, 1, 4, 1, <<>>, <<Fist>>, TRUE, 80),
                  Unit(1, 7, 4, 3, 1, 6, 2, 0, 2, <<Bolter>>, <<Knife>>, FALSE, 100),
                  Unit(1, 6, 3, 5, 1, 6, 1, 0, 1, <<>>, <<>>, FALSE, 80) >>,
     objectives |-> << Obj(12, 5), Obj(20, 3) >>,
     deploy |-> << {12}, {15, 22} >>],
    [units |-> << Unit(0, 6, 4, 3, 1, 6, 2, 0, 2, <<>>, <<Knife>>, FALSE, 100),
                  Unit(1, 6, 3, 5, 1, 6, 1, 0, 1, <<>>, <<>>, FALSE, 80),
                  Unit(1, 7, 4, 3, 1, 6, 2, 0, 2, <<>>, <<Knife>>, FALSE, 100) >>,
     objectives |-> << Obj(17, 5) >>,
     deploy |-> << {10}, {23, 30} >>]
>>

VARIABLES
    scenario,       \* which roster and battlefield the simulator was built with
    max_turns,      \* simulate_battle's argument
    units,          \* the mutable fields of every BattleUnit
    state,          \* BattleState
    controlled_by,  \* Objective.controlled_by of every objective (NoPlayer = None)
    pc,             \* where simulate_battle stands
    turn_iter,      \* the next value of range(1, max_turns + 1)
    idx,            \* index of the unit the current phase loop is at
    melee_units,    \* the sorted list _fight_phase iterates
    report,         \* the returned battle report
    act,            \* what the last loop iteration did
    fight_order,    \* the units that resolved melee in the current Fight phase
    shocked_now,    \* the units that failed the leadership test in this player turn
    battle_log,     \* BattleSimulator.battle_log: the BattleEvents logged so far
    call            \* the last call of a pure function: its arguments and results

vars == <<scenario, max_turns, units, state, controlled_by, pc, turn_iter, idx,
          melee_units, report, act, fight_order, shocked_now, battle_log, call>>

\* the state of a battle: everything but the record of the pure calls
battle_vars == <<scenario, max_turns, units, state, controlled_by, pc, turn_iter, idx,
                 melee_units, report, act, fight_order, shocked_now, battle_log>>

NoPlayer == 0 - 1
NoUnit == 0

S == Scenarios[scenario]
U(i) == S.units[i]
UnitIds == 1..Len(S.units)
ObjIds == 1..Len(S.objectives)

\* BattleSimulator.add_unit: the two lists, in insertion order
SideUnits(p) == SelectSeq([i \in 1..Len(S.units) |-> i], LAMBDA i : U(i).player_id = p)
player_1_units == SideUnits(0)
player_2_units == SideUnits(1)

\* --------------------------------------------------------------- BattleUnit
\* BattleUnit.is_destroyed
is_destroyed(us, i) == us[i].current_wounds <= 0 \/ us[i].state = "Destroyed"

\* BattleUnit.models_remaining: max(0, ceil(current_wounds / wounds_per_model))
models_remaining(us, i) ==
    Max(0, (us[i].current_wounds + U(i).wounds_per_model - 1) \div U(i).wounds_per_model)

\* take_damage without the clamp at 0
take_damage_unclamped(us, i, damage) ==
    LET cw == us[i].current_wounds - damage
    IN  [us EXCEPT ![i].current_wounds = cw,
                   ![i].state = IF cw <= 0 THEN "Destroyed" ELSE @]

\* BattleUnit.take_damage: the unit table afterwards
take_damage(us, i, damage) ==
    LET cw == Max(0, us[i].current_wounds - damage)
    IN  [us EXCEPT ![i].current_wounds = cw,
                   ![i].state = IF cw <= 0 THEN "Destroyed" ELSE @]

\* models killed counted from the damage, overkill included
take_damage_kills_by_damage(us, i, damage) ==
    (damage + U(i).wounds_per_model - 1) \div U(i).wounds_per_model

\* BattleUnit.take_damage: the models killed it returns
take_damage_kills(us, i, damage) ==
    models_remaining(us, i) - models_remaining(take_damage(us, i, damage), i)

\* BattleUnit.distance_to
unit_distance(us, i, j) == Distance(us[i].position, us[j].position)

\* BattleUnit.is_in_engagement_range
is_in_engagement_range(us, i, enemies) ==
    \E k \in 1..Len(enemies) :
        /\ ~is_destroyed(us, enemies[k])
        /\ FLe(unit_distance(us, i, enemies[k]), 1 * Scale)

\* reset_phase_flags that also clears in_melee
reset_phase_flags_clears_in_melee(m) ==
    [m EXCEPT !.has_moved = FALSE, !.has_advanced = FALSE, !.has_fallen_back = FALSE,
              !.has_shot = FALSE, !.has_fought = FALSE, !.in_melee = FALSE]

\* BattleUnit.reset_phase_flags
reset_phase_flags(m) ==
    [m EXCEPT !.has_moved = FALSE, !.has_advanced = FALSE, !.has_fallen_back = FALSE,
              !.has_shot = FALSE, !.has_fought = FALSE]

\* BattleWeapon.is_in_range
is_in_range(w, distance) ==
    IF ~w.is_ranged THEN FLe(distance, 1 * Scale) ELSE FLe(distance, w.range * Scale)

\* ------------------------------------------------------------ BattleStrategy
\* BattleStrategy._move_toward; min(distance, max_distance) is nan for a nan distance
move_toward(from_pos, to_pos, max_distance) ==
    LET distance == Distance(from_pos, to_pos)
    IN  IF distance = NaN THEN NaN
        ELSE IF distance = 0 THEN from_pos
        ELSE from_pos + Sgn(to_pos - from_pos) * Min(distance, max_distance)

\* the loop of select_movement that finds the nearest living enemy:
\* the first enemy, in list order, at the least distance; NoUnit when there is none
nearest_enemy(us, i, enemies) ==
    LET Cand == {k \in 1..Len(enemies) :
                    ~is_destroyed(us, enemies[k]) /\ unit_distance(us, i, enemies[k]) # NaN}
    IN  IF Cand = {} THEN NoUnit
        ELSE enemies[CHOOSE k \in Cand : \A l \in Cand :
                 \/ unit_distance(us, i, enemies[l]) > unit_distance(us, i, enemies[k])
                 \/ (unit_distance(us, i, enemies[l]) = unit_distance(us, i, enemies[k]) /\ l >= k)]

RECURSIVE SumPos(_, _)
SumPos(us, list) ==
    IF list = <<>> THEN 0 ELSE us[Head(list)].position + SumPos(us, Tail(list))

\* np.mean of the positions of a list of units, on the grid (rounded toward zero)
mean_position(us, list) ==
    IF \E k \in 1..Len(list) : us[list[k]].position = NaN THEN NaN
    ELSE LET total == SumPos(us, list)
         IN  IF total >= 0 THEN total \div Len(list) ELSE 0 - ((0 - total) \div Len(list))

\* max(w.range for w in unit.ranged_weapons)
max_weapon_range(ws) ==
    CHOOSE r \in {ws[k].range : k \in 1..Len(ws)} : \A k \in 1..Len(ws) : ws[k].range <= r

\* min(objectives, key=distance): the first objective at the least distance
nearest_objective(pos) ==
    IF pos = NaN THEN 1
    ELSE CHOOSE o \in ObjIds : \A q \in ObjIds :
             \/ Abs(S.objectives[q].position - pos) > Abs(S.objectives[o].position - pos)
             \/ (Abs(S.objectives[q].position - pos) = Abs(S.objectives[o].position - pos) /\ q >= o)

\* the last rule of select_movement: toward the nearest objective, else stay
objective_move(us, i) ==
    IF Len(S.objectives) > 0
    THEN move_toward(us[i].position, S.objectives[nearest_objective(us[i].position)].position,
                     U(i).movement * Scale)
    ELSE us[i].position

\* the melee rule of select_movement and what follows it
melee_move(us, i, enemies) ==
    IF Len(U(i).melee_weapons) > 0 /\ nearest_enemy(us, i, enemies) # NoUnit
    THEN move_toward(us[i].position, us[nearest_enemy(us, i, enemies)].position,
                     U(i).movement * Scale)
    ELSE objective_move(us, i)

\* BattleStrategy.select_movement
select_movement(us, i, enemies, friendlies) ==
    LET current_pos == us[i].position
        ne == nearest_enemy(us, i, enemies)
        min_enemy_dist == unit_distance(us, i, ne)
        optimal_range == (3 * max_weapon_range(U(i).ranged_weapons) * Scale) \div 4
    IN  IF is_in_engagement_range(us, i, enemies)
        THEN IF Len(U(i).melee_weapons) > 0 /\ U(i).wounds > 3
             THEN current_pos
             ELSE IF Len(friendlies) > 0
                  THEN move_toward(current_pos, mean_position(us, friendlies),
                                   U(i).movement * Scale)
                  ELSE current_pos
        ELSE IF Len(U(i).ranged_weapons) > 0 /\ Len(U(i).melee_weapons) = 0 /\ ne # NoUnit
        THEN IF 2 * min_enemy_dist < optimal_range
             THEN IF min_enemy_dist > 0
                  THEN current_pos + Sgn(current_pos - us[ne].position)
                                     * Min(U(i).movement * Scale, optimal_range - min_enemy_dist)
                  ELSE melee_move(us, i, enemies)
             ELSE IF min_enemy_dist > optimal_range
                  THEN move_toward(current_pos, us[ne].position, U(i).movement * Scale)
                  ELSE melee_move(us, i, enemies)
        ELSE melee_move(us, i, enemies)

\* Battlefield.has_line_of_sight and Battlefield.is_in_cover on a battlefield
\* whose terrain list is empty, as after Battlefield.__init__
has_line_of_sight(from_pos, to_pos) == TRUE
is_in_cover(pos, from_pos) == FALSE

\* wound_percentage < 0.5
below_half_wounds(us, e) == 2 * us[e].current_wounds < U(e).model_count * U(e).wounds_per_model

\* the priority score of select_shooting_target, times Scale
shooting_score(us, i, e) ==
    (IF below_half_wounds(us, e) THEN 50 * Scale ELSE 0)
    + (IF U(e).is_character THEN 30 * Scale ELSE 0)
    + PyMax0(IF unit_distance(us, i, e) = NaN THEN NaN ELSE 30 * Scale - unit_distance(us, i, e))

\* the priority score of select_charge_target, times Scale
charge_score(us, i, e) ==
    (IF below_half_wounds(us, e) THEN 50 * Scale ELSE 0)
    + (IF U(e).is_character THEN 30 * Scale ELSE 0)
    + PyMax0(IF unit_distance(us, i, e) = NaN THEN NaN ELSE 30 * Scale - 2 * unit_distance(us, i, e))

\* valid_targets.sort(key=score, reverse=True)[0]: the sort is stable, so the
\* first candidate, in list order, with the greatest score
best_target(enemies, Cand, score) ==
    IF Cand = {} THEN NoUnit
    ELSE enemies[CHOOSE k \in Cand : \A l \in Cand :
             \/ score[l] < score[k]
             \/ (score[l] = score[k] /\ l >= k)]

\* select_shooting_target without the test that skips destroyed enemies
select_shooting_target_any(us, i, enemies) ==
    LET Cand == {k \in 1..Len(enemies) :
                    /\ \E n \in 1..Len(U(i).ranged_weapons) :
                           is_in_range(U(i).ranged_weapons[n], unit_distance(us, i, enemies[k]))
                    /\ has_line_of_sight(us[i].position, us[enemies[k]].position)}
        score == [k \in 1..Len(enemies) |-> shooting_score(us, i, enemies[k])]
    IN  best_target(enemies, Cand, score)

\* BattleStrategy.select_shooting_target
select_shooting_target(us, i, enemies) ==
    LET Cand == {k \in 1..Len(enemies) :
                    /\ ~is_destroyed(us, enemies[k])
                    /\ \E n \in 1..Len(U(i).ranged_weapons) :
                           is_in_range(U(i).ranged_weapons[n], unit_distance(us, i, enemies[k]))
                    /\ has_line_of_sight(us[i].position, us[enemies[k]].position)}
        score == [k \in 1..Len(enemies) |-> shooting_score(us, i, enemies[k])]
    IN  best_target(enemies, Cand, score)

\* BattleStrategy.select_charge_target: "distance > 12.0" is false for nan
select_charge_target(us, i, enemies) ==
    LET Cand == {k \in 1..Len(enemies) :
                    /\ ~is_destroyed(us, enemies[k])
                    /\ ~FGt(unit_distance(us, i, enemies[k]), 12 * Scale)}
        score == [k \in 1..Len(enemies) |-> charge_score(us, i, enemies[k])]
    IN  best_target(enemies, Cand, score)

\* ------------------------------------------------------- combat resolution
\* the save threshold of _resolve_shooting / _resolve_melee (cover only when shooting)
save_value(w, d, cover) ==
    LET armour == U(d).save - w.ap
        sv == IF U(d).invuln_save # 0 /\ U(d).invuln_save < armour
              THEN U(d).invuln_save ELSE armour
    IN  IF cover THEN sv - 1 ELSE sv

\* the same save step on plain numbers (invuln = 0 is None)
battle_save_value(save, ap, invuln, cover) ==
    LET armour == save - ap
        sv == IF invuln # 0 /\ invuln < armour THEN invuln ELSE armour
    IN  IF cover THEN sv - 1 ELSE sv

\* _resolve_shooting: "save_rolls < save_value", every wound when save_value >= 7
battle_save_fails(sv, roll) == IF sv >= 7 THEN TRUE ELSE roll < sv

\* simulate_attack_sequence, step 4: the save requirement (invuln = 0 is None)
save_requirement(save, modified_ap, save_modifier, invuln) ==
    LET modified_save == save - modified_ap + save_modifier
    IN  IF invuln # 0 /\ invuln < modified_save THEN invuln ELSE modified_save

\* simulate_attack_sequence, step 4: whether a wound with this final die is a failed save
save_fails(requirement, roll) ==
    IF requirement > 6 THEN TRUE
    ELSE IF requirement <= 1 THEN FALSE
    ELSE roll < requirement

\* the failed saves one resolution can produce: hit rolls, wound rolls, save rolls
failed_saves(num_attacks, to_hit, to_wound, sv) ==
    UNION { UNION { IF wounds = 0 THEN {0}
                    ELSE IF sv >= 7 THEN {wounds} ELSE Failures(wounds, sv)
                    : wounds \in IF hits = 0 THEN {0} ELSE Successes(hits, to_wound) }
            : hits \in Successes(num_attacks, to_hit) }

\* BattleSimulator._resolve_shooting: every (total_damage, unit table) it can leave
resolve_shooting(us, a, w, d) ==
    IF ~is_in_range(w, unit_distance(us, a, d))
    THEN {[damage |-> 0, kills |-> 0, units |-> us]}
    ELSE LET to_hit == IF us[a].has_advanced THEN w.bs_ws + 1 ELSE w.bs_ws
             to_wound == calculate_wound_roll(w.strength, U(d).toughness)
             sv == save_value(w, d, is_in_cover(us[d].position, us[a].position))
         IN  UNION { { [damage |-> f * damage,
                        kills |-> take_damage_kills(us, d, f * damage),
                        units |-> take_damage(us, d, f * damage)]
                       : f \in failed_saves(num_attacks, to_hit, to_wound, sv) }
                     : <<num_attacks, damage>> \in
                           {weapon_dice[w.attacks] * models_remaining(us, a)}
                           \X {weapon_dice[w.damage]} }

\* BattleSimulator._resolve_melee: no range check, no cover, no advance penalty
resolve_melee(us, a, w, d) ==
    LET to_wound == calculate_wound_roll(w.strength, U(d).toughness)
        sv == save_value(w, d, FALSE)
    IN  UNION { { [damage |-> f * damage,
                   kills |-> take_damage_kills(us, d, f * damage),
                   units |-> take_damage(us, d, f * damage)]
                  : f \in failed_saves(num_attacks, w.bs_ws, to_wound, sv) }
                : <<num_attacks, damage>> \in
                      {weapon_dice[w.attacks] * models_remaining(us, a)}
                      \X {weapon_dice[w.damage]} }

\* "for weapon in weapons: damage, kills = resolve(unit, weapon, target)":
\* every (total_damage, total_kills, unit table) the loop can end with
RECURSIVE resolve_all(_, _, _, _, _)
resolve_all(us, a, ws, d, ranged) ==
    IF ws = <<>> THEN {[damage |-> 0, kills |-> 0, units |-> us]}
    ELSE UNION { { [damage |-> r.damage + rest.damage, kills |-> r.kills + rest.kills,
                    units |-> rest.units]
                   : rest \in resolve_all(r.units, a, Tail(ws), d, ranged) }
                 : r \in IF ranged THEN resolve_shooting(us, a, Head(ws), d)
                         ELSE resolve_melee(us, a, Head(ws), d) }

\* ---------------------------------------------------------- initial state
\* no pure function called yet
NoCall == [fn |-> "none", args |-> <<>>, result |-> <<>>]

\* a BattleUnit as constructed: full wound pool, Position(0, 0), no flag set
NewUnit(i) ==
    [current_wounds |-> U(i).model_count * U(i).wounds_per_model,
     state |-> "Active", position |-> 0,
     has_moved |-> FALSE, has_advanced |-> FALSE, has_fallen_back |-> FALSE,
     has_shot |-> FALSE, has_fought |-> FALSE, in_melee |-> FALSE]

\* BattleState()
NewState == [turn |-> 1, active_player |-> 0, phase |-> "Command",
             player_1_vp |-> 0, player_2_vp |-> 0]

NoReport == [turns_played |-> 0, player_1_vp |-> 0, player_2_vp |-> 0,
             player_1_units_alive |-> 0, player_2_units_alive |-> 0,
             player_1_points_remaining |-> 0, player_2_points_remaining |-> 0,
             winner |-> ""]

NoAct == [kind |-> "none", unit |-> NoUnit, target |-> NoUnit, damage |-> 0, kills |-> 0,
          roll |-> 0]
Act(kind, unit, target, damage, kills) ==
    [kind |-> kind, unit |-> unit, target |-> target, damage |-> damage, kills |-> kills,
     roll |-> 0]

\* simulate_battle's army names (the defaults)
p1_army_name == "Player 1"
p2_army_name == "Player 2"

Init ==
    /\ scenario \in 1..Len(Scenarios)
    /\ max_turns \in 1..MaxTurns
    /\ units = [i \in UnitIds |-> NewUnit(i)]
    /\ state = NewState
    /\ controlled_by = [o \in ObjIds |-> NoPlayer]
    /\ pc = "deploy"
    /\ turn_iter = 1
    /\ idx = 0
    /\ melee_units = <<>>
    /\ report = NoReport
    /\ act = NoAct
    /\ fight_order = <<>>
    /\ shocked_now = {}
    /\ battle_log = <<>>
    /\ call = NoCall

\* ------------------------------------------------------------ simulate_battle
\* a BattleEvent that records no kills
BattleEvent_without_kills(st, event_type, damage_dealt, models_killed) ==
    [turn |-> st.turn, phase |-> st.phase, player |-> st.active_player,
     event_type |-> event_type, damage_dealt |-> damage_dealt, models_killed |-> 0]

\* the BattleEvent _log_event appends (its description is left out)
BattleEvent(st, event_type, damage_dealt, models_killed) ==
    [turn |-> st.turn, phase |-> st.phase, player |-> st.active_player,
     event_type |-> event_type, damage_dealt |-> damage_dealt,
     models_killed |-> models_killed]

\* a _log_event that puts the new event at the head of the list
log_event_at_head(log, st, event_type, damage_dealt, models_killed) ==
    <<BattleEvent(st, event_type, damage_dealt, models_killed)>> \o log

\* BattleSimulator._log_event
log_event(log, st, event_type, damage_dealt, models_killed) ==
    Append(log, BattleEvent(st, event_type, damage_dealt, models_killed))

active_units == IF state.active_player = 0 THEN player_1_units ELSE player_2_units
enemy_units == IF state.active_player = 0 THEN player_2_units ELSE player_1_units

\* BattleSimulator.deploy_armies: every unit gets a position of its side's zone
deploy_armies ==
    /\ pc = "deploy"
    /\ \E place \in [UnitIds -> UNION {S.deploy[k] : k \in 1..2}] :
          /\ \A i \in UnitIds : place[i] \in S.deploy[U(i).player_id + 1]
          /\ units' = [i \in UnitIds |-> [units[i] EXCEPT !.position = place[i] * Scale]]
    /\ battle_log' = log_event(battle_log, state, "deployment", 0, 0)
    /\ pc' = "turn"
    /\ UNCHANGED <<call, scenario, max_turns, state, controlled_by, turn_iter, idx,
                   melee_units, report, act, fight_order, shocked_now>>

\* the head of _simulate_player_turn: active player, flag reset, Command phase
start_player_turn(st, p) ==
    /\ state' = [st EXCEPT !.active_player = p, !.phase = "Command"]
    /\ units' = [i \in UnitIds |->
                    IF U(i).player_id = p THEN reset_phase_flags(units[i]) ELSE units[i]]
    /\ pc' = "phase"
    /\ idx' = 1
    /\ shocked_now' = {}

\* a range that yields one value too many
range_has_next_inclusive(i, n) == i <= n + 1

\* range(1, max_turns + 1) yields the value i
range_has_next(i, n) == i <= n

\* "for turn in range(1, max_turns + 1)": the next turn, or the end of the loop
begin_turn ==
    /\ pc = "turn"
    /\ IF range_has_next(turn_iter, max_turns)
       THEN /\ start_player_turn([state EXCEPT !.turn = turn_iter], 0)
            /\ turn_iter' = turn_iter + 1
       ELSE /\ pc' = "report"
            /\ UNCHANGED <<state, units, idx, turn_iter, shocked_now>>
    /\ act' = NoAct
    /\ UNCHANGED <<call, scenario, max_turns, controlled_by, melee_units, report, fight_order,
                   battle_log>>

InPhase(ph) == pc = "phase" /\ state.phase = ph

\* one iteration of _command_phase
command_phase ==
    /\ InPhase("Command")
    /\ idx <= Len(active_units)
    /\ \E u \in {active_units[idx]} :
           IF is_destroyed(units, u) \/ ~(2 * models_remaining(units, u) <= U(u).model_count)
           THEN /\ act' = NoAct
                /\ UNCHANGED <<units, shocked_now, battle_log>>
           ELSE \E roll \in TwoD6 :
                   /\ units' = IF roll > U(u).leadership
                               THEN [units EXCEPT ![u].state = "Battle-shocked"]
                               ELSE units
                   /\ shocked_now' = IF roll > U(u).leadership
                                     THEN shocked_now \cup {u} ELSE shocked_now
                   /\ battle_log' = IF roll > U(u).leadership
                                    THEN log_event(battle_log, state, "battle-shock", 0, 0)
                                    ELSE battle_log
                   /\ act' = Act("test", u, NoUnit, 0, 0)
    /\ idx' = idx + 1
    /\ UNCHANGED <<call, scenario, max_turns, state, controlled_by, pc, turn_iter,
                   melee_units, report, fight_order>>

\* Position.distance_to(new_pos) is a float computed from a position that was
\* itself computed by normalising and scaling: it can differ from the exact
\* distance by a rounding error in either direction, unless nothing moved
distance_rounding(from_pos, to_pos) ==
    IF from_pos = NaN \/ to_pos = NaN \/ from_pos = to_pos THEN {0}
    ELSE {0 - 1, 0, 1}

\* "distance > x" for the computed distance: the exact one and its rounding error
computed_gt(distance, rounding, x) ==
    FGt(distance, x) \/ (distance = x /\ rounding > 0)

\* one iteration of _movement_phase
movement_phase ==
    /\ InPhase("Movement")
    /\ idx <= Len(active_units)
    /\ \E u \in {active_units[idx]} :
       \E new_pos \in {select_movement(units, u, enemy_units, active_units)} :
       \E falls_back \in {/\ is_in_engagement_range(units, u, enemy_units)
                           /\ FGt(Distance(units[u].position, new_pos), 0)} :
       \E distance_moved \in {Distance(units[u].position, new_pos)} :
       \E rounding \in distance_rounding(units[u].position, new_pos) :
           IF is_destroyed(units, u) \/ units[u].state = "Battle-shocked"
           THEN /\ act' = NoAct
                /\ UNCHANGED <<units, battle_log>>
           ELSE /\ battle_log' =
                      (IF falls_back THEN log_event(battle_log, state, "movement", 0, 0)
                       ELSE battle_log)
                      \o (IF computed_gt(distance_moved, rounding, Scale \div 2)
                          THEN <<BattleEvent(state, "movement", 0, 0)>> ELSE <<>>)
                /\ units' = [units EXCEPT
                      ![u].has_fallen_back = IF falls_back THEN TRUE ELSE @,
                      ![u].state = IF falls_back THEN "Fall Back" ELSE @,
                      ![u].position = new_pos,
                      ![u].has_advanced =
                          IF computed_gt(distance_moved, rounding, U(u).movement * Scale)
                          THEN TRUE ELSE @,
                      ![u].has_moved =
                          IF computed_gt(distance_moved, rounding, Scale \div 2)
                          THEN TRUE ELSE @]
                /\ act' = Act("move", u, NoUnit, 0, 0)
    /\ idx' = idx + 1
    /\ UNCHANGED <<call, scenario, max_turns, state, controlled_by, pc, turn_iter,
                   melee_units, report, fight_order, shocked_now>>

\* one iteration of _shooting_phase
shooting_phase ==
    /\ InPhase("Shooting")
    /\ idx <= Len(active_units)
    /\ \E u \in {active_units[idx]} :
       \E target \in {select_shooting_target(units, u, enemy_units)} :
           IF \/ is_destroyed(units, u)
              \/ Len(U(u).ranged_weapons) = 0
              \/ units[u].has_fallen_back
              \/ target = NoUnit
           THEN /\ act' = NoAct
                /\ UNCHANGED <<units, battle_log>>
           ELSE \E r \in resolve_all(units, u, U(u).ranged_weapons, target, TRUE) :
                   /\ units' = [r.units EXCEPT ![u].has_shot = TRUE]
                   /\ battle_log' = IF r.damage > 0
                                    THEN log_event(battle_log, state, "shooting",
                                                   r.damage, r.kills)
                                    ELSE battle_log
                   /\ act' = Act("shoot", u, target, r.damage, r.kills)
    /\ idx' = idx + 1
    /\ UNCHANGED <<call, scenario, max_turns, state, controlled_by, pc, turn_iter,
                   melee_units, report, fight_order, shocked_now>>

\* the position after a successful charge: unit.position + direction, where
\* direction = (target - unit) / dist_norm * (distance - 0.5); 0/0 is nan
charge_position(pos, target_pos) ==
    LET distance == Distance(pos, target_pos)
    IN  IF distance = 0 THEN NaN
        ELSE pos + Sgn(target_pos - pos) * (distance - Scale \div 2)

\* one iteration of _charge_phase
charge_phase ==
    /\ InPhase("Charge")
    /\ idx <= Len(active_units)
    /\ \E u \in {active_units[idx]} :
       \E target \in {select_charge_target(units, u, enemy_units)} :
           IF \/ is_destroyed(units, u)
              \/ units[u].has_fallen_back
              \/ Len(U(u).melee_weapons) = 0
              \/ target = NoUnit
           THEN /\ act' = NoAct
                /\ UNCHANGED <<units, battle_log>>
           ELSE \E charge_roll \in TwoD6 :
                   /\ units' = IF FGe(charge_roll * Scale, unit_distance(units, u, target))
                               THEN [units EXCEPT
                                       ![u].position = charge_position(@, units[target].position),
                                       ![u].in_melee = TRUE,
                                       ![target].in_melee = TRUE]
                               ELSE units
                   /\ battle_log' = IF FGe(charge_roll * Scale, unit_distance(units, u, target))
                                    THEN log_event(battle_log, state, "charge", 0, 0)
                                    ELSE battle_log
                   /\ act' = [Act("charge", u, target, 0, 0) EXCEPT !.roll = charge_roll]
    /\ idx' = idx + 1
    /\ UNCHANGED <<call, scenario, max_turns, state, controlled_by, pc, turn_iter,
                   melee_units, report, fight_order, shocked_now>>

\* the first living unit of enemy_list within 1" of unit u
fight_target(us, u, enemy_list) ==
    LET Cand == {k \in 1..Len(enemy_list) :
                    /\ ~is_destroyed(us, enemy_list[k])
                    /\ FLe(unit_distance(us, u, enemy_list[k]), 1 * Scale)}
    IN  IF Cand = {} THEN NoUnit
        ELSE enemy_list[CHOOSE k \in Cand : \A l \in Cand : l >= k]

\* one iteration of the loop of _fight_phase over melee_units
fight_phase ==
    /\ InPhase("Fight")
    /\ idx <= Len(melee_units)
    /\ \E u \in {melee_units[idx]} :
       \E enemy_list \in {IF U(u).player_id = state.active_player
                           THEN enemy_units ELSE active_units} :
       \E target \in {fight_target(units, u, enemy_list)} :
           IF is_destroyed(units, u) \/ units[u].has_fought \/ target = NoUnit
           THEN /\ act' = NoAct
                /\ UNCHANGED <<units, fight_order, battle_log>>
           ELSE \E r \in resolve_all(units, u, U(u).melee_weapons, target, FALSE) :
                   /\ units' = [r.units EXCEPT ![u].has_fought = TRUE]
                   /\ battle_log' = IF r.damage > 0
                                    THEN log_event(battle_log, state, "melee",
                                                   r.damage, r.kills)
                                    ELSE battle_log
                   /\ act' = Act("fight", u, target, r.damage, r.kills)
                   /\ fight_order' = Append(fight_order, u)
    /\ idx' = idx + 1
    /\ UNCHANGED <<call, scenario, max_turns, state, controlled_by, pc, turn_iter,
                   melee_units, report, shocked_now>>

\* list.sort(key=lambda x: -x[0].stats.movement): stable, higher movement first
RECURSIVE sort_by_movement(_)
sort_by_movement(list) ==
    IF list = <<>> THEN <<>>
    ELSE LET x == list[Len(list)]
             sorted == sort_by_movement(SubSeq(list, 1, Len(list) - 1))
             before == SelectSeq(sorted, LAMBDA y : U(y).movement >= U(x).movement)
             after == SelectSeq(sorted, LAMBDA y : U(y).movement < U(x).movement)
         IN  before \o <<x>> \o after

\* the list _fight_phase builds before its loop
collect_melee_units(us) ==
    sort_by_movement(SelectSeq(active_units \o enemy_units,
                               LAMBDA i : us[i].in_melee /\ ~is_destroyed(us, i)))

\* following_phase with the Charge phase left out
following_phase_no_charge(ph) ==
    IF ph = "Command" THEN "Movement"
    ELSE IF ph = "Movement" THEN "Shooting"
    ELSE "Fight"

\* the phase _simulate_player_turn sets after phase ph
following_phase(ph) ==
    IF ph = "Command" THEN "Movement"
    ELSE IF ph = "Movement" THEN "Shooting"
    ELSE IF ph = "Shooting" THEN "Charge"
    ELSE "Fight"

\* the end of a phase loop: _simulate_player_turn goes on to the next phase,
\* simulate_battle to the second player's turn or to the scoring
next_phase ==
    /\ pc = "phase"
    /\ idx > (IF state.phase = "Fight" THEN Len(melee_units) ELSE Len(active_units))
    /\ act' = NoAct
    /\ IF state.phase # "Fight"
       THEN /\ state' = [state EXCEPT !.phase = following_phase(state.phase)]
            /\ melee_units' = IF following_phase(state.phase) = "Fight"
                              THEN collect_melee_units(units) ELSE <<>>
            /\ fight_order' = <<>>
            /\ idx' = 1
            /\ UNCHANGED <<units, pc, shocked_now>>
       ELSE IF state.active_player = 0
       THEN /\ start_player_turn(state, 1)
            /\ melee_units' = <<>>
            /\ fight_order' = <<>>
       ELSE /\ pc' = "score"
            /\ idx' = 0
            /\ melee_units' = <<>>
            /\ fight_order' = <<>>
            /\ UNCHANGED <<state, units, shocked_now>>
    /\ UNCHANGED <<call, scenario, max_turns, controlled_by, turn_iter, report, battle_log>>

\* a control sum that counts a unit's oc once, whatever its models
RECURSIVE control_per_unit(_, _, _)
control_per_unit(us, list, o) ==
    IF list = <<>> THEN 0
    ELSE LET u == Head(list)
         IN  (IF /\ ~is_destroyed(us, u)
                 /\ FLe(Distance(us[u].position, S.objectives[o].position), 3 * Scale)
              THEN U(u).oc ELSE 0)
             + control_per_unit(us, Tail(list), o)

\* the control sum _score_objectives computes for one side's list and one objective
RECURSIVE control(_, _, _)
control(us, list, o) ==
    IF list = <<>> THEN 0
    ELSE LET u == Head(list)
         IN  (IF /\ ~is_destroyed(us, u)
                 /\ FLe(Distance(us[u].position, S.objectives[o].position), 3 * Scale)
              THEN U(u).oc * models_remaining(us, u) ELSE 0)
             + control(us, Tail(list), o)

p1_control(us, o) == control(us, player_1_units, o)
p2_control(us, o) == control(us, player_2_units, o)

\* the victory points side p gains over the objectives o..n
RECURSIVE awarded(_, _, _)
awarded(us, p, o) ==
    IF o > Len(S.objectives) THEN 0
    ELSE (IF p = 0 /\ p1_control(us, o) > p2_control(us, o) THEN S.objectives[o].value
          ELSE IF p = 1 /\ p2_control(us, o) > p1_control(us, o) THEN S.objectives[o].value
          ELSE 0)
         + awarded(us, p, o + 1)

\* the "objective" events _score_objectives logs for the objectives o..n
RECURSIVE objective_events(_, _, _)
objective_events(us, st, o) ==
    IF o > Len(S.objectives) THEN <<>>
    ELSE (IF p1_control(us, o) # p2_control(us, o)
          THEN <<BattleEvent(st, "objective", 0, 0)>> ELSE <<>>)
         \o objective_events(us, st, o + 1)

\* BattleSimulator._score_objectives
score_objectives ==
    /\ pc = "score"
    /\ battle_log' = battle_log \o objective_events(units, state, 1)
    /\ state' = [state EXCEPT !.player_1_vp = @ + awarded(units, 0, 1),
                              !.player_2_vp = @ + awarded(units, 1, 1)]
    /\ controlled_by' = [o \in ObjIds |->
           IF p1_control(units, o) > p2_control(units, o) THEN 0
           ELSE IF p2_control(units, o) > p1_control(units, o) THEN 1
           ELSE controlled_by[o]]
    /\ pc' = "check"
    /\ act' = NoAct
    /\ UNCHANGED <<call, scenario, max_turns, units, turn_iter, idx, melee_units, report,
                   fight_order, shocked_now>>

\* a liveness test that never reports a tabled side
any_alive_always(us, list) == TRUE

\* any(not u.is_destroyed() for u in list)
any_alive(us, list) == \E k \in 1..Len(list) : ~is_destroyed(us, list[k])

\* BattleSimulator._check_battle_end and the break of the turn loop
check_battle_end ==
    /\ pc = "check"
    /\ pc' = IF ~any_alive(units, player_1_units) \/ ~any_alive(units, player_2_units)
             THEN "report" ELSE "turn"
    /\ act' = NoAct
    /\ UNCHANGED <<call, scenario, max_turns, units, state, controlled_by, turn_iter, idx,
                   melee_units, report, fight_order, shocked_now, battle_log>>

\* sum(u.points_cost for u in list if not u.is_destroyed())
RECURSIVE points_remaining(_, _)
points_remaining(us, list) ==
    IF list = <<>> THEN 0
    ELSE (IF is_destroyed(us, Head(list)) THEN 0 ELSE U(Head(list)).points_cost)
         + points_remaining(us, Tail(list))

\* len([u for u in list if not u.is_destroyed()])
units_alive(us, list) == Len(SelectSeq(list, LAMBDA i : ~is_destroyed(us, i)))

\* _determine_winner with the tie-break turned round
determine_winner_fewer_points(st, us) ==
    IF st.player_1_vp > st.player_2_vp THEN p1_army_name
    ELSE IF st.player_2_vp > st.player_1_vp THEN p2_army_name
    ELSE IF points_remaining(us, player_1_units) < points_remaining(us, player_2_units)
    THEN p1_army_name
    ELSE IF points_remaining(us, player_2_units) < points_remaining(us, player_1_units)
    THEN p2_army_name
    ELSE "Draw"

\* BattleSimulator._determine_winner
determine_winner(st, us) ==
    IF st.player_1_vp > st.player_2_vp THEN p1_army_name
    ELSE IF st.player_2_vp > st.player_1_vp THEN p2_army_name
    ELSE IF points_remaining(us, player_1_units) > points_remaining(us, player_2_units)
    THEN p1_army_name
    ELSE IF points_remaining(us, player_2_units) > points_remaining(us, player_1_units)
    THEN p2_army_name
    ELSE "Draw"

\* BattleSimulator._generate_battle_report, returned by simulate_battle
generate_battle_report ==
    /\ pc = "report"
    /\ report' = [turns_played |-> state.turn,
                  player_1_vp |-> state.player_1_vp,
                  player_2_vp |-> state.player_2_vp,
                  player_1_units_alive |-> units_alive(units, player_1_units),
                  player_2_units_alive |-> units_alive(units, player_2_units),
                  player_1_points_remaining |-> points_remaining(units, player_1_units),
                  player_2_points_remaining |-> points_remaining(units, player_2_units),
                  winner |-> determine_winner(state, units)]
    /\ pc' = "done"
    /\ act' = NoAct
    /\ UNCHANGED <<call, scenario, max_turns, units, state, controlled_by, turn_iter, idx,
                   melee_units, fight_order, shocked_now, battle_log>>

Next ==
    \/ deploy_armies
    \/ begin_turn
    \/ command_phase
    \/ movement_phase
    \/ shooting_phase
    \/ charge_phase
    \/ fight_phase
    \/ next_phase
    \/ score_objectives
    \/ check_battle_end
    \/ generate_battle_report

Spec == Init /\ [][Next]_vars

\* ------------------------------------------------- calls of the pure functions
\* one call of each wound-threshold function with the same arguments
wound_roll_call ==
    /\ call = NoCall
    /\ \E strength \in 1..MaxStat, toughness \in 1..MaxStat :
          call' = [fn |-> "wound_roll", args |-> <<strength, toughness>>,
                   result |-> <<calculate_wound_roll(strength, toughness),
                                calculate_wound_requirement(strength, toughness)>>]
    /\ UNCHANGED battle_vars

\* the save step of simulate_attack_sequence for one wound
combat_save_call ==
    /\ call = NoCall
    /\ \E save \in SaveValues, ap \in ApValues, save_modifier \in (0 - 1)..1,
          invuln \in InvulnValues, roll \in 1..6 :
          call' = [fn |-> "combat_save",
                   args |-> <<save, ap, save_modifier, invuln, roll>>,
                   result |-> [threshold |-> save_requirement(save, ap, save_modifier, invuln),
                               fails |-> save_fails(
                                   save_requirement(save, ap, save_modifier, invuln), roll)]]
    /\ UNCHANGED battle_vars

\* the save step of _resolve_shooting for one wound; cover is a save modifier of -1
battle_save_call ==
    /\ call = NoCall
    /\ \E save \in SaveValues, ap \in ApValues, cover \in BOOLEAN,
          invuln \in InvulnValues, roll \in 1..6 :
          call' = [fn |-> "battle_save",
                   args |-> <<save, ap, IF cover THEN 0 - 1 ELSE 0, invuln, roll>>,
                   result |-> [threshold |-> battle_save_value(save, ap, invuln, cover),
                               fails |-> battle_save_fails(
                                   battle_save_value(save, ap, invuln, cover), roll)]]
    /\ UNCHANGED battle_vars

\* ---------------------------------------- BattleStrategy.select_deployment_zone
\* np.random.uniform(low, high) on the integer grid; low may exceed high
Uniform(low, high) == Min(low, high)..Max(low, high)

RectKeys == {"x_min", "x_max", "y_min", "y_max"}

\* DeploymentZone(shape, bounds); bounds is a dict, here a function of its keys
Zone(shape, bounds) == [shape |-> shape, bounds |-> bounds]

\* the deployment zones select_deployment_zone is called with
Zones == <<
    Zone("rectangle", [x_min |-> 0, x_max |-> 8, y_min |-> 0, y_max |-> 6]),
    Zone("rectangle", [x_min |-> 4, x_max |-> 4, y_min |-> 0, y_max |-> 6]),
    Zone("rectangle", [x_min |-> 8, x_max |-> 0, y_min |-> 0, y_max |-> 6]),
    Zone("triangle", [center |-> <<22, 12>>, radius |-> 4]),
    Zone("triangle", [vertices |-> <<<<0, 0>>, <<8, 0>>, <<0, 8>>>>]),
    Zone("triangle", [center |-> <<22, 12>>]),
    Zone("compound", [rectangles |-> <<[x_min |-> 0, x_max |-> 6, y_min |-> 0, y_max |-> 4],
                                       [x_min |-> 10, x_max |-> 10, y_min |-> 0, y_max |-> 4]>>]),
    Zone("compound", [rectangles |-> <<>>]),
    Zone("compound", <<>>),
    Zone("polygon", [points |-> <<>>])
>>

\* "for _ in range(max_attempts)"
max_attempts == 100

\* Position(22, 12 if player_id == 0 else 48)
default_position(player_id) == <<22, IF player_id = 0 THEN 12 ELSE 48>>

\* the outcome of the sampling of one attempt: a KeyError, or the value of pos
\* (is_set is false while pos is still the value it had before the loop)
Sampled(pos) == [raised |-> FALSE, is_set |-> TRUE, pos |-> pos]
Raised == [raised |-> TRUE, is_set |-> FALSE, pos |-> <<0, 0>>]
NotSet == [raised |-> FALSE, is_set |-> FALSE, pos |-> <<0, 0>>]

\* the points a rectangle dict can yield: uniform in the rectangle, 2" inside
rectangle_samples(rect) ==
    IF ~(RectKeys \subseteq DOMAIN rect) THEN {Raised}
    ELSE {Sampled(<<x, y>>) : x \in Uniform(rect.x_min + 2, rect.x_max - 2),
                              y \in Uniform(rect.y_min + 2, rect.y_max - 2)}

\* the body of the attempt loop up to the validity test, by zone shape
zone_samples(zone, player_id) ==
    IF zone.shape = "rectangle" THEN rectangle_samples(zone.bounds)
    ELSE IF zone.shape = "triangle" /\ "center" \in DOMAIN zone.bounds
    THEN IF "radius" \notin DOMAIN zone.bounds THEN {Raised}
         ELSE {Sampled(<<zone.bounds.center[1] + dist * dir[1],
                         zone.bounds.center[2] + dist * dir[2]>>)
               : dist \in Uniform(0, zone.bounds.radius - 2),
                 dir \in {<<1, 0>>, <<0, 1>>, <<0 - 1, 0>>, <<0, 0 - 1>>}}
    ELSE IF zone.shape = "compound"
    THEN IF "rectangles" \in DOMAIN zone.bounds /\ zone.bounds.rectangles # <<>>
         THEN UNION {rectangle_samples(zone.bounds.rectangles[k])
                     : k \in 1..Len(zone.bounds.rectangles)}
         ELSE {NotSet}
    ELSE {Sampled(default_position(player_id))}

\* a point lies in a rectangle dict
in_rectangle(rect, pos) ==
    /\ rect.x_min <= pos[1] /\ pos[1] <= rect.x_max
    /\ rect.y_min <= pos[2] /\ pos[2] <= rect.y_max

\* DeploymentZone.is_valid_deployment
is_valid_deployment(zone, sample) ==
    IF zone.shape = "rectangle" THEN in_rectangle(zone.bounds, sample.pos)
    ELSE IF zone.shape = "triangle"
    THEN IF "center" \in DOMAIN zone.bounds /\ "radius" \in DOMAIN zone.bounds
         THEN /\ zone.bounds.radius >= 0
              /\ (sample.pos[1] - zone.bounds.center[1]) * (sample.pos[1] - zone.bounds.center[1])
                 + (sample.pos[2] - zone.bounds.center[2]) * (sample.pos[2] - zone.bounds.center[2])
                 <= zone.bounds.radius * zone.bounds.radius
         ELSE FALSE
    ELSE IF zone.shape = "compound"
    THEN IF "rectangles" \in DOMAIN zone.bounds
         THEN \E k \in 1..Len(zone.bounds.rectangles) :
                 in_rectangle(zone.bounds.rectangles[k], sample.pos)
         ELSE FALSE
    ELSE FALSE

\* select_deployment_zone comes to a unit of side player_id with a zone given
select_deployment_zone ==
    /\ call = NoCall
    /\ \E z \in 1..Len(Zones), player_id \in {0, 1} :
          call' = [fn |-> "deploy", args |-> <<z, player_id>>,
                   result |-> [outcome |-> "sampling", attempt |-> 0, pos |-> <<0, 0>>]]
    /\ UNCHANGED battle_vars

\* one pass of "for _ in range(max_attempts)", or the else branch of the loop
deployment_attempt ==
    /\ call.fn = "deploy"
    /\ call.result.outcome = "sampling"
    /\ LET zone == Zones[call.args[1]]
           player_id == call.args[2]
       IN  IF call.result.attempt = max_attempts
           THEN call' = [call EXCEPT !.result.outcome = "default",
                                     !.result.pos = default_position(player_id)]
           ELSE \E sample \in zone_samples(zone, player_id) :
                   call' = IF sample.raised
                           THEN [call EXCEPT !.result.outcome = "KeyError"]
                           ELSE IF is_valid_deployment(zone, sample)
                           THEN [call EXCEPT !.result.outcome = "placed",
                                             !.result.pos = sample.pos]
                           ELSE [call EXCEPT !.result.attempt = @ + 1]
    /\ UNCHANGED battle_vars

\* the placeholder tokens of a roster
Placeholders == {<<"-">>, <<"N", "/", "A">>, <<>>}

\* the tokens the parsers are called with: placeholders, stat values, dice notations
Tokens ==
    Placeholders
    \cup {<<"3", "+">>, <<"4", "+", "+">>, <<"d", "6">>, <<" ", "2", "D", "6", " ">>}
    \cup {Dice(k, s, c) : k \in 0..MaxDice, s \in {0, 3, 6}, c \in (0 - MaxConst)..MaxConst}

\* each parser applied to one token: convert_roster_weapon parses the skill with
\* default 4 and the AP with default 0; the simulators parse attacks and damage
parse_call ==
    /\ call = NoCall
    /\ \E token \in Tokens :
          call' = [fn |-> "parse", args |-> <<token>>,
                   result |-> [skill |-> parse_stat_value(token, 4),
                               ap |-> parse_stat_value(token, 0),
                               dice_value |-> parse_dice_value(token),
                               dice_notation |-> parse_dice_notation(token)]]
    /\ UNCHANGED battle_vars

\* ------------------------------------- combat_simulator.simulate_attack_sequence
\* The local variables of simulate_attack_sequence after its setup, for a plain
\* attack: one model, two attacks hitting on 3+, S4 against T4, save 3+,
\* damage 1, against two models of two wounds (invuln = 0 is '', fnp = 0 is none)
PlainAttack ==
    [attacker_squad_size |-> 1, attacks_stat |-> <<"2">>, hit_requirement |-> 3,
     has_torrent |-> FALSE, reroll_hits |-> "", extra_hits_on_6 |-> FALSE,
     sustained_hits |-> 0, has_lethal_hits |-> FALSE,
     strength |-> 4, toughness |-> 4, anti_wound_bonus |-> 0, wound_modifier |-> 0,
     transhuman |-> FALSE, reroll_wounds |-> "", has_twin_linked |-> FALSE,
     has_auto_wound_on_6 |-> FALSE, mortal_wounds_on_6 |-> 0,
     has_devastating_wounds |-> FALSE,
     save |-> 3, modified_ap |-> 0, save_modifier |-> 0, invuln |-> 0, reroll_saves |-> "",
     damage_stat |-> <<"1">>, damage_modifier |-> 0, halve_damage |-> FALSE, fnp |-> 0,
     defender_squad_size |-> 2, wounds_per_model |-> 2]

\* the attacks simulate_attack_sequence is called with. TorrentAttack is an
\* attack whose hits are automatic; twin_linked is parse_weapon_abilities on
\* "twin-linked": the flag, and the wound re-roll policy 'failed' unless the
\* text gave another one
AttackConfigs ==
    LET TorrentAttack == [PlainAttack EXCEPT !.has_torrent = TRUE]
        twin_linked(cfg) ==
            [cfg EXCEPT !.has_twin_linked = TRUE,
                        !.reroll_wounds = IF @ = "" THEN "failed" ELSE @]
    IN
    {PlainAttack,
     [PlainAttack EXCEPT !.attacks_stat = <<"1">>, !.sustained_hits = 1,
                         !.extra_hits_on_6 = TRUE],
     [PlainAttack EXCEPT !.has_lethal_hits = TRUE, !.has_devastating_wounds = TRUE],
     [TorrentAttack EXCEPT !.has_devastating_wounds = TRUE, !.mortal_wounds_on_6 = 1],
     [TorrentAttack EXCEPT !.transhuman = TRUE, !.wound_modifier = 0 - 1],
     [TorrentAttack EXCEPT !.transhuman = TRUE, !.strength = 8, !.wound_modifier = 1],
     [TorrentAttack EXCEPT !.transhuman = TRUE, !.toughness = 5, !.anti_wound_bonus = 2],
     twin_linked(TorrentAttack),
     [TorrentAttack EXCEPT !.save = 6, !.modified_ap = 0 - 1],
     [TorrentAttack EXCEPT !.save = 2, !.save_modifier = 0 - 1, !.invuln = 4],
     [TorrentAttack EXCEPT !.attacks_stat = <<"1">>, !.damage_stat = <<"D", "3">>,
                           !.damage_modifier = 1, !.halve_damage = TRUE, !.fnp = 5]}
    \cup {[PlainAttack EXCEPT !.attacks_stat = <<"1">>, !.reroll_hits = policy]
             : policy \in {"ones", "failed", "all", "conditional"}}
    \cup {[TorrentAttack EXCEPT !.attacks_stat = <<"1">>, !.reroll_wounds = policy]
             : policy \in {"ones", "failed", "all"}}
    \cup {[TorrentAttack EXCEPT !.attacks_stat = <<"1">>, !.reroll_saves = policy]
             : policy \in {"ones", "failed", "all"}}

\* a die of one step: its first roll, whether it was rolled again, the roll
\* that was classified, the requirement it was compared with, and whether it
\* was counted (as a hit, a wound, a failed save, a point of damage going
\* through); the step "none" stands for no die rolled
Die(step, first, rerolled, roll, requirement, counted) ==
    [step |-> step, first |-> first, rerolled |-> rerolled, roll |-> roll,
     requirement |-> requirement, counted |-> counted]

\* the local variables of the loop body, as they are when a run begins
\* (sixes counts the wound dice whose classified roll is 6)
NewRun(cfg) ==
    [remaining_defender_wounds |-> [k \in 1..cfg.defender_squad_size |-> cfg.wounds_per_model],
     num_attacks |-> 0, rolled |-> 0,
     hits |-> 0, critical_hits |-> 0,
     wound_requirement |-> 0, effective_wound_requirement |-> 0, wound_dice |-> 0,
     wounds |-> 0, critical_wounds |-> 0, mw_from_6s |-> 0, sixes |-> 0,
     mortal_wounds_this_phase |-> 0, normal_wounds |-> 0,
     save_requirement |-> 0, failed_saves |-> 0,
     all_damage_instances |-> <<>>, damage_before_fnp |-> <<>>, point |-> 0,
     damage_after_fnp |-> <<>>, fnp_saved_this_sim |-> 0,
     sim_damage |-> 0, models_killed_this_sim |-> 0,
     die |-> Die("none", 0, FALSE, 0, 0, FALSE)]

\* results['damage_per_simulation'].append(..) and
\* results['models_killed_per_simulation'].append(..) with nothing appended
\* for a run without damage
append_samples_if_damage(results, damage, kills) ==
    IF damage = 0 THEN results
    ELSE [results EXCEPT !.damage_per_simulation = Append(@, damage),
                         !.models_killed_per_simulation = Append(@, kills)]

\* results['damage_per_simulation'].append(..) and
\* results['models_killed_per_simulation'].append(..): the end of a run
append_samples(results, damage, kills) ==
    [results EXCEPT !.damage_per_simulation = Append(@, damage),
                    !.models_killed_per_simulation = Append(@, kills)]

\* the configuration of the call of simulate_attack_sequence in progress
sim_cfg == call.args[1]

\* the call of simulate_attack_sequence is at this step of its loop body
InStep(step) == call.fn = "simulate_attack_sequence" /\ call.result.step = step

\* the step leaves results and the run's local variables as given
Continue(step, results, run) ==
    /\ call' = [call EXCEPT !.result = [results EXCEPT !.step = step, !.run = run]]
    /\ UNCHANGED battle_vars


\* simulate_attack_sequence is called: the results dictionary before the loop
simulate_attack_sequence ==
    /\ call = NoCall
    /\ \E cfg \in AttackConfigs : \E n \in 1..MaxRuns :
          call' = [fn |-> "simulate_attack_sequence", args |-> <<cfg, n>>,
                   result |-> [step |-> "loop", sim |-> 0,
                               damage_per_simulation |-> <<>>,
                               models_killed_per_simulation |-> <<>>,
                               run |-> NewRun(cfg)]]
    /\ UNCHANGED battle_vars

\* "for sim in range(num_simulations)": the head of a run up to the hit
\* rolls (the wound pool, the number of attacks, Torrent), or the return
begin_run ==
    /\ InStep("loop")
    /\ IF call.result.sim < call.args[2]
       THEN \E num_attacks \in
                  LET RECURSIVE SumsOf(_, _)
                      SumsOf(n, values) ==
                          IF n <= 0 THEN {0}
                          ELSE {a + b : a \in values, b \in SumsOf(n - 1, values)}
                  IN  SumsOf(sim_cfg.attacker_squad_size,
                             parse_dice_value(sim_cfg.attacks_stat)) :
               Continue("hit", call.result,
                        [NewRun(sim_cfg) EXCEPT
                            !.num_attacks = num_attacks,
                            !.rolled = IF sim_cfg.has_torrent THEN num_attacks ELSE 0,
                            !.hits = IF sim_cfg.has_torrent THEN num_attacks ELSE 0])
       ELSE Continue("returned", call.result, call.result.run)

\* the re-roll decision of the hit dice and the save dice
should_reroll(policy, roll, requirement) ==
    \/ policy = "all"
    \/ policy = "ones" /\ roll = 1
    \/ policy = "failed" /\ roll < requirement

\* one iteration of the hit loop
hit_roll ==
    /\ InStep("hit")
    /\ call.result.run.rolled < call.result.run.num_attacks
    /\ \E first \in 1..6 :
       \E rerolled \in {should_reroll(sim_cfg.reroll_hits, first, sim_cfg.hit_requirement)} :
       \E roll \in IF rerolled THEN 1..6 ELSE {first} :
          Continue("hit", call.result,
                   [call.result.run EXCEPT
                       !.rolled = @ + 1,
                       !.critical_hits = IF roll = 6 THEN @ + 1 ELSE @,
                       !.hits = IF roll = 6
                                THEN @ + 1 + (IF sim_cfg.extra_hits_on_6 THEN 1 ELSE 0)
                                ELSE IF roll >= sim_cfg.hit_requirement THEN @ + 1 ELSE @,
                       !.die = Die("hit", first, rerolled, roll, sim_cfg.hit_requirement,
                                   roll = 6 \/ roll >= sim_cfg.hit_requirement)])

\* the wound requirement after Anti-X and the wound modifier, clamped to 2..6
modified_wound_requirement(cfg) ==
    LET base_wound_requirement == calculate_wound_requirement(cfg.strength, cfg.toughness)
        wound_requirement == IF cfg.anti_wound_bonus > 0
                             THEN Min(base_wound_requirement, cfg.anti_wound_bonus)
                             ELSE base_wound_requirement
    IN  Max(2, Min(6, wound_requirement - cfg.wound_modifier))

\* the requirement the wound dice are compared with, Transhuman included
effective_wound_requirement(cfg) ==
    IF cfg.transhuman
    THEN Max(4, calculate_wound_requirement(cfg.strength, cfg.toughness))
    ELSE modified_wound_requirement(cfg)

\* from the end of the hit loop to the wound rolls: Sustained Hits, the run
\* without hits, the wound requirement, Lethal Hits
wound_setup ==
    /\ InStep("hit")
    /\ call.result.run.rolled = call.result.run.num_attacks
    /\ \E run \in {call.result.run} :
       \E hits \in {IF sim_cfg.sustained_hits > 0 /\ run.critical_hits > 0
                    THEN run.hits + run.critical_hits * sim_cfg.sustained_hits
                    ELSE run.hits} :
          IF hits = 0
          THEN Continue("loop", [append_samples(call.result, 0, 0) EXCEPT !.sim = @ + 1],
                        NewRun(sim_cfg))
          ELSE Continue("wound", call.result,
                   [run EXCEPT
                       !.hits = hits,
                       !.rolled = 0,
                       !.wound_requirement = modified_wound_requirement(sim_cfg),
                       !.effective_wound_requirement = effective_wound_requirement(sim_cfg),
                       !.wounds = IF sim_cfg.has_lethal_hits THEN run.critical_hits ELSE 0,
                       !.critical_wounds =
                           IF sim_cfg.has_lethal_hits THEN run.critical_hits ELSE 0,
                       !.wound_dice = IF sim_cfg.has_lethal_hits
                                      THEN hits - run.critical_hits ELSE hits,
                       !.die = Die("none", 0, FALSE, 0, 0, FALSE)])

\* one iteration of the wound loop (of either branch). The re-roll decision:
\* with Lethal Hits the policy alone, otherwise Twin-Linked or the policy
wound_roll ==
    /\ InStep("wound")
    /\ call.result.run.rolled < call.result.run.wound_dice
    /\ \E requirement \in {call.result.run.effective_wound_requirement} :
       \E first \in 1..6 :
       \E rerolled \in {IF sim_cfg.has_lethal_hits
                        THEN should_reroll(sim_cfg.reroll_wounds, first, requirement)
                        ELSE \/ sim_cfg.has_twin_linked \/ sim_cfg.reroll_wounds = "all"
                             \/ sim_cfg.reroll_wounds = "ones" /\ first = 1
                             \/ sim_cfg.reroll_wounds = "failed" /\ first < requirement} :
       \E roll \in IF rerolled THEN 1..6 ELSE {first} :
          Continue("wound", call.result,
                   [call.result.run EXCEPT
                       !.rolled = @ + 1,
                       !.sixes = IF roll = 6 THEN @ + 1 ELSE @,
                       !.critical_wounds = IF roll = 6 THEN @ + 1 ELSE @,
                       !.wounds = IF roll = 6 \/ roll >= requirement THEN @ + 1 ELSE @,
                       !.mw_from_6s = IF roll = 6 /\ sim_cfg.mortal_wounds_on_6 > 0
                                      THEN @ + sim_cfg.mortal_wounds_on_6 ELSE @,
                       !.die = Die("wound", first, rerolled, roll, requirement,
                                   roll = 6 \/ roll >= requirement)])

\* from the end of the wound loop to the save rolls (or, with no save to
\* roll, to the damage loops, or, with no damage instance, to the
\* allocation): the mortal wounds from
\* 6s, the run without wounds, Devastating Wounds, the save requirement
save_setup ==
    /\ InStep("wound")
    /\ call.result.run.rolled = call.result.run.wound_dice
    /\ \E run \in {call.result.run} :
       \E dev \in {sim_cfg.has_devastating_wounds /\ run.critical_wounds > 0} :
       \E mortal \in {IF dev THEN run.critical_wounds ELSE run.mw_from_6s} :
       \E normal_wounds \in {IF dev THEN run.wounds - run.critical_wounds ELSE run.wounds} :
       \E requirement \in {save_requirement(sim_cfg.save, sim_cfg.modified_ap,
                                            sim_cfg.save_modifier, sim_cfg.invuln)} :
       \E rolling \in {normal_wounds > 0 /\ requirement <= 6 /\ requirement > 1} :
       \E next \in {[run EXCEPT
                       !.rolled = 0,
                       !.mortal_wounds_this_phase = mortal,
                       !.normal_wounds = normal_wounds,
                       !.save_requirement = IF normal_wounds > 0 THEN requirement ELSE 0,
                       !.failed_saves = IF normal_wounds > 0 /\ requirement > 6
                                        THEN normal_wounds ELSE 0,
                       !.die = Die("none", 0, FALSE, 0, 0, FALSE)]} :
          IF run.wounds = 0
          THEN Continue("loop", [append_samples(call.result, 0, 0) EXCEPT !.sim = @ + 1],
                        NewRun(sim_cfg))
          ELSE Continue(IF rolling THEN "save"
                        ELSE IF next.failed_saves + next.mortal_wounds_this_phase > 0
                        THEN "damage" ELSE "allocate",
                        call.result, next)

\* one iteration of the save loop
save_roll ==
    /\ InStep("save")
    /\ call.result.run.rolled < call.result.run.normal_wounds
    /\ \E requirement \in {call.result.run.save_requirement} :
       \E first \in 1..6 :
       \E rerolled \in {should_reroll(sim_cfg.reroll_saves, first, requirement)} :
       \E roll \in IF rerolled THEN 1..6 ELSE {first} :
       \E next \in {[call.result.run EXCEPT
                       !.rolled = @ + 1,
                       !.failed_saves = IF roll < requirement THEN @ + 1 ELSE @,
                       !.die = Die("save", first, rerolled, roll, requirement,
                                   roll < requirement)]} :
          Continue(IF next.rolled < next.normal_wounds THEN "save"
                   ELSE IF next.failed_saves + next.mortal_wounds_this_phase > 0
                   THEN "damage" ELSE "allocate",
                   call.result, next)

\* one iteration of the two damage loops: an instance for every failed save,
\* then one for every mortal wound, its damage being the damage stat plus the
\* modifier, at least 1, halved under Halve Damage
damage_roll ==
    /\ InStep("damage")
    /\ \E run \in {call.result.run} :
       \E dmg \in {IF sim_cfg.halve_damage
                   THEN Max(1, Max(1, d + sim_cfg.damage_modifier) \div 2)
                   ELSE Max(1, d + sim_cfg.damage_modifier)
                      : d \in parse_dice_value(sim_cfg.damage_stat)} :
       \E next \in {[run EXCEPT !.all_damage_instances = Append(@, dmg),
                                !.damage_before_fnp = Append(@, dmg),
                                !.die = Die("none", 0, FALSE, 0, 0, FALSE)]} :
          Continue(IF Len(next.all_damage_instances)
                         < run.failed_saves + run.mortal_wounds_this_phase THEN "damage"
                   ELSE IF sim_cfg.fnp > 0 THEN "fnp" ELSE "allocate",
                   call.result, next)

\* the Feel No Pain roll of one point of damage: the first instance of
\* all_damage_instances is the one being worked on, point counts its points done
fnp_roll ==
    /\ InStep("fnp")
    /\ \E run \in {call.result.run} :
       \E roll \in 1..6 :
       \E last \in {run.point + 1 = Head(run.all_damage_instances)} :
       \E next \in {[run EXCEPT
                       !.damage_after_fnp = IF roll >= sim_cfg.fnp THEN Append(@, 1) ELSE @,
                       !.fnp_saved_this_sim = IF roll >= sim_cfg.fnp THEN @ ELSE @ + 1,
                       !.point = IF last THEN 0 ELSE @ + 1,
                       !.all_damage_instances = IF last THEN Tail(@) ELSE @,
                       !.die = Die("fnp", roll, FALSE, roll, sim_cfg.fnp,
                                   roll >= sim_cfg.fnp)]} :
          IF next.all_damage_instances = <<>>
          THEN Continue("allocate", call.result,
                        [next EXCEPT !.all_damage_instances = next.damage_after_fnp])
          ELSE Continue("fnp", call.result, next)

\* step 7 on a list of damage instances: each goes to the first model with
\* wounds left, which is killed when its wounds drop to 0 or below; gives
\* sim_damage, models_killed_this_sim and the pool afterwards
RECURSIVE allocate_damage(_, _)
allocate_damage(run, instances) ==
    IF instances = <<>> THEN run
    ELSE LET remaining == run.remaining_defender_wounds
             alive == {k \in 1..Len(remaining) : remaining[k] > 0}
             dmg == Head(instances)
         IN  IF alive = {}
             THEN allocate_damage([run EXCEPT !.sim_damage = @ + dmg], Tail(instances))
             ELSE LET i == CHOOSE k \in alive : \A other \in alive : k <= other
                  IN  allocate_damage(
                          [run EXCEPT
                              !.sim_damage = @ + dmg,
                              !.remaining_defender_wounds[i] = @ - dmg,
                              !.models_killed_this_sim =
                                  IF remaining[i] - dmg <= 0 THEN @ + 1 ELSE @],
                          Tail(instances))

\* the allocation of the damage and the end of the run
allocate ==
    /\ InStep("allocate")
    /\ \E done \in {allocate_damage(call.result.run, call.result.run.all_damage_instances)} :
          Continue("loop",
                   [append_samples(call.result, done.sim_damage, done.models_killed_this_sim)
                       EXCEPT !.sim = @ + 1],
                   [done EXCEPT !.die = Die("none", 0, FALSE, 0, 0, FALSE)])

FnInit == Init /\ scenario = 1 /\ max_turns = 1

FnNext ==
    \/ wound_roll_call
    \/ combat_save_call
    \/ battle_save_call
    \/ select_deployment_zone
    \/ deployment_attempt
    \/ parse_call
    \/ simulate_attack_sequence
    \/ begin_run
    \/ hit_roll
    \/ wound_setup
    \/ wound_roll
    \/ save_setup
    \/ save_roll
    \/ damage_roll
    \/ fnp_roll
    \/ allocate

\* one call of a pure function, with any arguments of its ranges
FnSpec == FnInit /\ [][FnNext]_vars

\* simulate_battle is one sequential call: a step that can be taken is taken
FairSpec == Spec /\ WF_vars(Next)

TypeOK ==
    /\ state.phase \in PhaseSet
    /\ state.active_player \in {0, 1}
    /\ \A i \in UnitIds : units[i].state \in UnitStates

\* ------------------------------------------------------------------ claims
FullWounds(i) == U(i).model_count * U(i).wounds_per_model
Living(i) == units[i].current_wounds > 0 /\ units[i].state # "Destroyed"
PhaseIndex(ph) == CHOOSE k \in 1..Len(Phases) : Phases[k] = ph

\* C1: in every step of a battle every unit keeps
\* 0 <= current_wounds <= model_count * wounds_per_model, and no step raises
\* a unit's current_wounds.
C1_WoundPoolBounded ==
    [][\A i \in UnitIds :
          /\ 0 <= units'[i].current_wounds
          /\ units'[i].current_wounds <= FullWounds(i)
          /\ units'[i].current_wounds <= units[i].current_wounds]_vars

\* a resolution whose damage exceeded the whole wound pool of its target
C1_Witness ==
    /\ act.kind \in {"shoot", "fight"}
    /\ act.damage > FullWounds(act.target)
    /\ units[act.target].current_wounds = 0

\* C2: a destroyed unit stays destroyed in every later state; a unit that is
\* destroyed is not chosen as a shooting, charge or fight target, does not move,
\* shoot, charge or fight, takes no leadership test, and the control sums at
\* scoring are the sums over the units that are not destroyed.
C2_DestroyedIsTerminal ==
    [][/\ \A i \in UnitIds : ~Living(i) => ~Living(i)'
       /\ act'.unit # NoUnit => Living(act'.unit)
       /\ act'.target # NoUnit => Living(act'.target)
       /\ pc = "score" =>
            \A o \in ObjIds :
               /\ p1_control(units, o)
                    = control(units, SelectSeq(player_1_units, LAMBDA i : Living(i)), o)
               /\ p2_control(units, o)
                    = control(units, SelectSeq(player_2_units, LAMBDA i : Living(i)), o)]_vars

\* a unit shoots while a destroyed unit of the other side lies on the table
C2_Witness ==
    /\ act.kind = "shoot"
    /\ \E i \in UnitIds :
          /\ U(i).player_id # U(act.unit).player_id
          /\ i # act.target
          /\ ~Living(i)

\* C3: the phases of a turn run in the order Command, Movement, Shooting,
\* Charge, Fight for side 0, then the same for side 1, then the scoring, once,
\* and only then the next turn; state.phase is always one of the five phases,
\* and the units a Command, Movement, Shooting or Charge phase works on are
\* those of state.active_player.
C3_PhaseOrder ==
    [][/\ state'.phase \in PhaseSet
       /\ state'.active_player \in {0, 1}
       /\ act'.kind \in {"test", "move", "shoot", "charge"} =>
              U(act'.unit).player_id = state'.active_player
       /\ act'.kind = "test" => state'.phase = "Command"
       /\ act'.kind = "move" => state'.phase = "Movement"
       /\ act'.kind = "shoot" => state'.phase = "Shooting"
       /\ act'.kind = "charge" => state'.phase = "Charge"
       /\ act'.kind = "fight" => state'.phase = "Fight"
       /\ (pc = "phase" /\ pc' = "phase" /\ state' # state) =>
              /\ state'.turn = state.turn
              /\ \/ /\ state'.active_player = state.active_player
                    /\ PhaseIndex(state.phase) < Len(Phases)
                    /\ state'.phase = Phases[PhaseIndex(state.phase) + 1]
                 \/ /\ state.active_player = 0 /\ state'.active_player = 1
                    /\ state.phase = "Fight" /\ state'.phase = "Command"
       /\ (pc = "phase" /\ pc' # "phase") =>
              /\ pc' = "score"
              /\ state.phase = "Fight" /\ state.active_player = 1
              /\ state' = state
       /\ pc = "score" => pc' = "check"
       /\ pc' = "turn" => pc \in {"deploy", "check"}
       /\ (pc # "phase" /\ pc' = "phase") =>
              /\ pc = "turn"
              /\ state'.phase = "Command" /\ state'.active_player = 0
       /\ state'.turn # state.turn => (pc = "turn" /\ state'.turn = state.turn + 1)]_vars

\* the second turn has run all its phases and its scoring
C3_Witness == pc = "check" /\ state.turn = 2 /\ state.phase = "Fight" /\ state.active_player = 1

AnyLiving(p) == \E i \in UnitIds : U(i).player_id = p /\ Living(i)

\* C5: when simulate_battle returns, turns_played = max_turns or a side has no
\* living unit; and a turn is started only while both sides have a living unit.
C5_CompletesOrTables ==
    [][/\ pc' = "done" =>
            (report'.turns_played = max_turns \/ ~AnyLiving(0)' \/ ~AnyLiving(1)')
       /\ (pc = "turn" /\ pc' = "phase") => (AnyLiving(0) /\ AnyLiving(1))]_vars

\* a battle that ended before max_turns because a side was tabled
C5_Witness ==
    /\ pc = "done"
    /\ report.turns_played < max_turns
    /\ (~AnyLiving(0) \/ ~AnyLiving(1))

RECURSIVE SetSum(_, _)
SetSum(set, f) ==
    IF set = {} THEN 0
    ELSE LET x == CHOOSE y \in set : TRUE IN f[x] + SetSum(set \ {x}, f)

Cost == [i \in UnitIds |-> U(i).points_cost]
LivingPoints(p) == SetSum({i \in UnitIds : U(i).player_id = p /\ Living(i)}, Cost)

\* C6: the reported winner is the side with more victory points; with equal
\* victory points the side whose living units cost more points; "Draw" exactly
\* when both are equal; it is always one of the two army names or "Draw".
C6_Winner ==
    pc = "done" =>
        /\ report.winner \in {p1_army_name, p2_army_name, "Draw"}
        /\ state.player_1_vp > state.player_2_vp => report.winner = p1_army_name
        /\ state.player_2_vp > state.player_1_vp => report.winner = p2_army_name
        /\ (state.player_1_vp = state.player_2_vp /\ LivingPoints(0) > LivingPoints(1))
              => report.winner = p1_army_name
        /\ (state.player_1_vp = state.player_2_vp /\ LivingPoints(1) > LivingPoints(0))
              => report.winner = p2_army_name
        /\ report.winner = "Draw" <=>
              (state.player_1_vp = state.player_2_vp /\ LivingPoints(0) = LivingPoints(1))

\* a battle decided by the tie-break, both armies still on the table
C6_Witness ==
    /\ pc = "done"
    /\ state.player_1_vp = state.player_2_vp
    /\ report.winner # "Draw"
    /\ AnyLiving(0) /\ AnyLiving(1)

\* ceil(current_wounds / wounds_per_model) of a living unit
ModelsLeft(i) ==
    CHOOSE n \in 0..U(i).model_count :
        /\ n * U(i).wounds_per_model >= units[i].current_wounds
        /\ (n - 1) * U(i).wounds_per_model < units[i].current_wounds

OcModels == [i \in UnitIds |-> U(i).oc * ModelsLeft(i)]

\* the sum of oc * models_remaining over the living units of side p within 3" of o
ControlSum(p, o) ==
    SetSum({i \in UnitIds : /\ U(i).player_id = p
                            /\ Living(i)
                            /\ units[i].position # NaN
                            /\ Abs(units[i].position - S.objectives[o].position) <= 3 * Scale},
           OcModels)

Won(p, o) == ControlSum(p, o) > ControlSum(1 - p, o)
ValueWon(p) == [o \in ObjIds |-> IF Won(p, o) THEN S.objectives[o].value ELSE 0]

\* C7: the scoring gives each objective's value to the side with the strictly
\* greater control sum and makes it controlled_by; with equal sums neither
\* side's victory points change and controlled_by stays as it was.
C7_Scoring ==
    [][pc = "score" =>
          /\ \A o \in ObjIds :
                controlled_by'[o] = IF Won(0, o) THEN 0
                                    ELSE IF Won(1, o) THEN 1 ELSE controlled_by[o]
          /\ state'.player_1_vp = state.player_1_vp + SetSum(ObjIds, ValueWon(0))
          /\ state'.player_2_vp = state.player_2_vp + SetSum(ObjIds, ValueWon(1))]_vars

\* after a scoring: an objective held by a side from an earlier turn, tied this
\* turn with both sides at it
C7_Witness ==
    /\ pc = "check"
    /\ \E o \in ObjIds :
          /\ ControlSum(0, o) = ControlSum(1, o)
          /\ ControlSum(0, o) > 0
          /\ controlled_by[o] # NoPlayer

\* the kinds of step in which a unit acts on the battlefield
ActKinds == {"move", "shoot", "charge", "fight"}

\* C8: a unit that failed its leadership test in this player turn and became
\* Battle-shocked neither moves nor shoots nor charges nor fights in the
\* remaining phases of that turn.
C8_ShockedUnitActsNot ==
    act.kind \in ActKinds =>
        ~(act.unit \in shocked_now /\ state.active_player = U(act.unit).player_id)

\* C9: Battle-shocked lasts for the turn of the failed test only: in a turn of
\* its side a unit is Battle-shocked only if it failed the leadership test of
\* that turn's Command phase.
C9_ShockEndsWithTurn ==
    pc = "phase" =>
        \A i \in UnitIds :
            (U(i).player_id = state.active_player /\ units[i].state = "Battle-shocked")
                => i \in shocked_now

\* some living enemy of unit u stands within 1" of it
EnemyWithinOneInch(u) ==
    \E e \in UnitIds :
        /\ U(e).player_id # U(u).player_id
        /\ Living(e)
        /\ units[u].position # NaN /\ units[e].position # NaN
        /\ Abs(units[u].position - units[e].position) <= 1 * Scale

\* no unit twice, and no unit before one with a greater movement stat
OnceInDescendingMovement(order) ==
    \A a, b \in 1..Len(order) :
        a < b => order[a] # order[b] /\ U(order[a]).movement >= U(order[b]).movement

\* C10: in every Fight phase each living in_melee unit with a living enemy
\* within 1" resolves its melee weapons exactly once, the units acting in order
\* of descending movement stat: when the phase comes to such a unit that has
\* not fought in this phase, the unit fights.
C10_EveryMeleeUnitFightsOnce ==
    [][(/\ InPhase("Fight")
        /\ idx <= Len(melee_units)
        /\ Living(melee_units[idx])
        /\ units[melee_units[idx]].in_melee
        /\ EnemyWithinOneInch(melee_units[idx])
        /\ \A k \in 1..Len(fight_order) : fight_order[k] # melee_units[idx])
          => /\ act'.kind = "fight"
             /\ act'.unit = melee_units[idx]
             /\ fight_order' = Append(fight_order, melee_units[idx])
             /\ OnceInDescendingMovement(fight_order')]_vars

\* the log before the step is the head of the log after it
AppendOnly == /\ Len(battle_log') >= Len(battle_log)
              /\ SubSeq(battle_log', 1, Len(battle_log)) = battle_log

\* every event the step appends carries the turn, side and phase of the step
StampedNow ==
    \A k \in (Len(battle_log) + 1)..Len(battle_log') :
        /\ battle_log'[k].turn = state.turn
        /\ battle_log'[k].player = state.active_player
        /\ battle_log'[k].phase = state.phase

\* event a is not after event b by turn, then phase
TurnPhaseOrder(a, b) ==
    \/ a.turn < b.turn
    \/ a.turn = b.turn /\ PhaseIndex(a.phase) <= PhaseIndex(b.phase)

\* event a is not after event b by turn, then side, then phase
TurnSidePhaseOrder(a, b) ==
    \/ a.turn < b.turn
    \/ a.turn = b.turn /\ a.player < b.player
    \/ a.turn = b.turn /\ a.player = b.player /\ PhaseIndex(a.phase) <= PhaseIndex(b.phase)

\* C11 as stated: the log is append-only and ordered by turn, then by phase.
C11_TurnMajorPhaseMinor ==
    [][/\ AppendOnly
       /\ \A a, b \in 1..Len(battle_log') :
             a < b => TurnPhaseOrder(battle_log'[a], battle_log'[b])]_vars

\* C11: the log is append-only, every event is stamped with the turn, side and
\* phase in which it is logged, and the log is ordered by turn, within a turn by
\* side (side 0's player turn before side 1's), within a side's player turn by
\* phase.
C11_TurnSidePhaseOrdered ==
    [][/\ AppendOnly
       /\ StampedNow
       /\ \A a, b \in 1..Len(battle_log') :
             a < b => TurnSidePhaseOrder(battle_log'[a], battle_log'[b])]_vars

\* a finished battle whose log holds a Charge or Fight event of side 0 before a
\* Movement event of side 1 of the same turn, and an event of a second turn
C11_Witness ==
    /\ pc = "done"
    /\ \E a, b, c \in 1..Len(battle_log) :
          /\ a < b /\ b < c
          /\ battle_log[a].turn = 1 /\ battle_log[a].player = 0
          /\ battle_log[a].phase \in {"Charge", "Fight"}
          /\ battle_log[b].turn = 1 /\ battle_log[b].player = 1
          /\ battle_log[b].phase = "Movement"
          /\ battle_log[c].turn = 2

\* the models a wound pool of w wounds holds for unit i: w / wounds_per_model, rounded up
ModelsOf(i, w) ==
    CHOOSE n \in 0..U(i).model_count :
        /\ n * U(i).wounds_per_model >= w
        /\ (n - 1) * U(i).wounds_per_model < w

\* C12: a resolution leaves the defender with max(0, wounds before - damage)
\* wounds; its models do not increase, it loses no more wounds than it had, and
\* the models killed are >= 0 and are the models before minus the models after.
C12_ResolutionArithmetic ==
    [][act'.kind \in {"shoot", "fight"} =>
          LET d == act'.target
              before == units[d].current_wounds
              after == units'[d].current_wounds
          IN  /\ after = (IF before - act'.damage > 0 THEN before - act'.damage ELSE 0)
              /\ ModelsOf(d, after) <= ModelsOf(d, before)
              /\ before - after <= before
              /\ act'.kills >= 0
              /\ act'.kills = ModelsOf(d, before) - ModelsOf(d, after)]_vars

\* a resolution whose damage is more than the wounds the defender had left
C12_Witness ==
    /\ act.kind \in {"shoot", "fight"}
    /\ act.damage > act.kills * U(act.target).wounds_per_model
    /\ act.kills > 0
    /\ units[act.target].current_wounds = 0

\* the wound table: one row per relation between strength and toughness
WoundTable(strength, toughness) ==
    CHOOSE n \in 2..6 :
        /\ n = 2 <=> 2 * toughness <= strength
        /\ n = 3 <=> (toughness < strength /\ strength < 2 * toughness)
        /\ n = 4 <=> strength = toughness
        /\ n = 5 <=> (strength < toughness /\ toughness < 2 * strength)
        /\ n = 6 <=> 2 * strength <= toughness

\* C13: for all strength and toughness >= 1 the wound threshold is the one of
\* the table, and _calculate_wound_roll and calculate_wound_requirement return
\* this same value.
C13_WoundTable ==
    call.fn = "wound_roll" =>
        /\ call.result[1] = WoundTable(call.args[1], call.args[2])
        /\ call.result[2] = WoundTable(call.args[1], call.args[2])

\* a call with toughness exactly twice the strength, where the threshold is 6
C13_Witness ==
    /\ call.fn = "wound_roll"
    /\ call.args[2] = 2 * call.args[1]
    /\ call.result = <<6, 6>>

\* the threshold of the save step: base_save - AP + save_modifier, replaced by
\* the invulnerable save exactly when there is one and it is strictly lower
SaveThreshold(save, ap, save_modifier, invuln) ==
    IF invuln # 0 /\ invuln < save - ap + save_modifier
    THEN invuln ELSE save - ap + save_modifier

\* C14: in the save step (of simulate_attack_sequence and of _resolve_shooting)
\* the threshold is base_save - AP + save_modifier or the strictly lower
\* invulnerable save; above 6 every wound is a failed save, at 1 or less none
\* is, otherwise a wound is a failed save exactly when its die is below it.
C14_SaveStep ==
    call.fn \in {"combat_save", "battle_save"} =>
        LET t == SaveThreshold(call.args[1], call.args[2], call.args[3], call.args[4])
        IN  /\ call.result.threshold = t
            /\ call.result.fails <=> (t > 6 \/ (t > 1 /\ call.args[5] < t))

\* C15: deploying a unit with a deployment zone never ends in an error; the
\* unit gets one position, which satisfies the zone's is_valid_deployment or is
\* the default position of its side, the latter only after 100 rejected samples.
C15_DeploymentNeverRaises ==
    call.fn = "deploy" =>
        /\ call.result.outcome # "KeyError"
        /\ call.result.outcome = "placed" =>
              is_valid_deployment(Zones[call.args[1]], Sampled(call.result.pos))
        /\ call.result.outcome = "default" =>
              /\ call.result.pos = default_position(call.args[2])
              /\ call.result.attempt = 100

\* C16: a placeholder token never raises in a parser the battle uses and maps
\* to the documented default: 4 for an unset skill, 0 for a quantity.
C16_PlaceholdersNeverRaise ==
    (call.fn = "parse" /\ call.args[1] \in Placeholders) =>
        /\ call.result.skill = 4
        /\ call.result.ap = 0
        /\ call.result.dice_notation = 0
        /\ call.result.dice_value = {0}

\* k * 3.5 or k * 2 for the die, plus the constant, times two
TwiceMean(k, s, c) == (IF k = 0 THEN 1 ELSE k) * (IF s = 6 THEN 7 ELSE 4) + 2 * c

\* the integers nearest to twice / 2 when the tie rounds up, and when it rounds to even
HalfUp(twice) == (twice + 1) \div 2
HalfEven(twice) == IF twice % 2 = 0 THEN twice \div 2
                   ELSE IF ((twice - 1) \div 2) % 2 = 0 THEN (twice - 1) \div 2
                   ELSE (twice + 1) \div 2

\* C17 as stated: the value of kDs+c or kDs-c is k times the mean of the die
\* rounded to the nearest integer (a half rounded as round-half-up or as
\* round-half-even does), plus or minus the constant, and at least 1.
C17_RoundedToNearest ==
    call.fn = "parse" =>
        \A k \in 0..MaxDice, s \in {3, 6}, c \in (0 - MaxConst)..MaxConst :
            call.args[1] = Dice(k, s, c) =>
                \/ call.result.dice_notation = Max(1, HalfUp(TwiceMean(k, s, 0)) + c)
                \/ call.result.dice_notation = Max(1, HalfEven(TwiceMean(k, s, 0)) + c)

\* C17: the value of kDs+c or kDs-c is k times the mean of the die rounded
\* down, plus or minus the constant, and at least 1; an expression without a
\* die evaluates to its integer.
C17_RoundedDown ==
    call.fn = "parse" =>
        \A k \in 0..MaxDice, s \in {0, 3, 6}, c \in (0 - MaxConst)..MaxConst :
            call.args[1] = Dice(k, s, c) =>
                call.result.dice_notation =
                    IF s = 0 THEN c ELSE Max(1, (TwiceMean(k, s, 0) \div 2) + c)

\* "3D6+10": three dice with mean 10.5 and a constant of two digits, value 20
C17_Witness ==
    /\ call.fn = "parse"
    /\ call.args[1] = <<"3", "D", "6", "+", "1", "0">>
    /\ call.result.dice_notation = 20

\* the step begins a player turn of side p
StartsPlayerTurn(p) ==
    /\ pc' = "phase"
    /\ state'.phase = "Command"
    /\ state'.active_player = p
    /\ pc = "turn" \/ state.active_player # p

\* C18: a unit that falls back in its Movement phase (it was within 1" of a
\* living enemy and its position changed) has has_fallen_back set; a unit with
\* the flag set neither shoots nor charges; the flag stays set until the start
\* of its side's next player turn, and that start clears it.
C18_FallBack ==
    [][/\ \A i \in UnitIds :
            (/\ InPhase("Movement")
             /\ act'.kind = "move" /\ act'.unit = i
             /\ EnemyWithinOneInch(i)
             /\ units'[i].position # units[i].position)
                => units'[i].has_fallen_back
       /\ act'.kind \in {"shoot", "charge"} => ~units[act'.unit].has_fallen_back
       /\ \A i \in UnitIds :
            (units[i].has_fallen_back /\ ~units'[i].has_fallen_back)
                => StartsPlayerTurn(U(i).player_id)
       /\ \A i \in UnitIds :
            StartsPlayerTurn(U(i).player_id) => ~units'[i].has_fallen_back]_vars

\* C19: in the Movement phase the distance between a unit's old and new
\* position never exceeds its movement stat, whichever branch of
\* select_movement chose the new position, and so has_advanced is never set
\* and the advance to-hit penalty is never applied.
C19_MoveWithinMovementStat ==
    [][(InPhase("Movement") /\ act'.kind = "move") =>
          /\ ~FGt(Distance(units[act'.unit].position, units'[act'.unit].position),
                  U(act'.unit).movement * Scale)
          /\ \A i \in UnitIds : ~units'[i].has_advanced]_vars

\* C20: in the Charge phase a unit with melee weapons that did not fall back
\* declares a charge only against a living enemy at distance <= 12"; the charge
\* succeeds exactly when the 2D6 roll is >= that distance, and then the charger
\* stands at a well-defined position within 0.5" of the target and both units
\* have in_melee set; after a failed roll no position and no in_melee flag has
\* changed.
C20_Charge ==
    [][(InPhase("Charge") /\ act'.kind = "charge") =>
          LET u == act'.unit
              target == act'.target
          IN  /\ Len(U(u).melee_weapons) > 0
              /\ ~units[u].has_fallen_back
              /\ Living(target)
              /\ units[u].position # NaN /\ units[target].position # NaN
              /\ Abs(units[u].position - units[target].position) <= 12 * Scale
              /\ IF act'.roll * Scale >= Abs(units[u].position - units[target].position)
                 THEN /\ units'[u].position # NaN
                      /\ Abs(units'[u].position - units'[target].position) <= Scale \div 2
                      /\ units'[u].in_melee /\ units'[target].in_melee
                 ELSE \A i \in UnitIds :
                          /\ units'[i].position = units[i].position
                          /\ units'[i].in_melee = units[i].in_melee]_vars

\* C21: the enemy a unit attacks in the Fight phase is the nearest living enemy
\* among those within 1" of it: no living enemy within 1" stands nearer to the
\* unit than the one it attacks.
C21_FightsNearestEnemy ==
    [][(InPhase("Fight") /\ act'.kind = "fight") =>
          /\ Living(act'.target)
          /\ U(act'.target).player_id # U(act'.unit).player_id
          /\ units[act'.unit].position # NaN /\ units[act'.target].position # NaN
          /\ Abs(units[act'.unit].position - units[act'.target].position) <= 1 * Scale
          /\ \A e \in UnitIds :
                (/\ U(e).player_id # U(act'.unit).player_id
                 /\ Living(e)
                 /\ units[e].position # NaN
                 /\ Abs(units[act'.unit].position - units[e].position) <= 1 * Scale)
                    => Abs(units[act'.unit].position - units[act'.target].position)
                          <= Abs(units[act'.unit].position - units[e].position)]_vars

\* the units of the side opposed to unit u, in list order
EnemiesOf(u) == IF U(u).player_id = 0 THEN player_2_units ELSE player_1_units

\* the movement decision of unit u falls through to the objective rule: u is
\* not engaged, no range-keeping move and no advance on an enemy applies
ObjectiveRuleApplies(u) ==
    LET ne == nearest_enemy(units, u, EnemiesOf(u))
        dist == unit_distance(units, u, ne)
        optimal == (3 * max_weapon_range(U(u).ranged_weapons) * Scale) \div 4
    IN  /\ units[u].position # NaN
        /\ ~EnemyWithinOneInch(u)
        /\ ~(/\ Len(U(u).ranged_weapons) > 0 /\ Len(U(u).melee_weapons) = 0
             /\ ne # NoUnit
             /\ (2 * dist < optimal /\ dist > 0) \/ dist > optimal)
        /\ ~(Len(U(u).melee_weapons) > 0 /\ ne # NoUnit)

\* objective o is unclaimed and no unclaimed objective is nearer to position pos
NearestUnclaimed(o, pos) ==
    /\ controlled_by[o] = NoPlayer
    /\ \A q \in ObjIds :
          controlled_by[q] = NoPlayer
              => Abs(S.objectives[o].position - pos) <= Abs(S.objectives[q].position - pos)

\* C22: a unit whose movement decision falls through to the objective rule
\* advances toward the nearest unclaimed objective; a claimed objective is not
\* chosen.
C22_AdvancesOnUnclaimedObjective ==
    [][(/\ InPhase("Movement") /\ act'.kind = "move"
        /\ ObjectiveRuleApplies(act'.unit)
        /\ \E o \in ObjIds : controlled_by[o] = NoPlayer)
          => \E o \in ObjIds :
                /\ NearestUnclaimed(o, units[act'.unit].position)
                /\ units'[act'.unit].position =
                      move_toward(units[act'.unit].position, S.objectives[o].position,
                                  U(act'.unit).movement * Scale)]_vars

\* the positions a destroyed unit is put at for the comparison: every full inch
\* of the battlefield's length
BattlefieldPositions == {p * Scale : p \in 0..60}

\* C23: destroyed units are excluded from the collections used for movement
\* decisions: putting a destroyed unit at another position gives the unit that
\* is about to move the same movement target.
C23_DestroyedUnitsIgnored ==
    (/\ InPhase("Movement")
     /\ idx <= Len(active_units)
     /\ Living(active_units[idx])
     /\ units[active_units[idx]].state # "Battle-shocked")
        => \A d \in UnitIds : \A p \in BattlefieldPositions :
              ~Living(d) =>
                  select_movement([units EXCEPT ![d].position = p], active_units[idx],
                                  enemy_units, active_units)
                      = select_movement(units, active_units[idx], enemy_units, active_units)

\* C29: in_melee is set only by a successful charge, on the charger and on its
\* target, and is never cleared: once true for a unit it stays true.
C29_InMeleeIsNeverCleared ==
    [][\A i \in UnitIds :
          /\ units[i].in_melee => units'[i].in_melee
          /\ (~units[i].in_melee /\ units'[i].in_melee)
                => /\ InPhase("Charge")
                   /\ act'.kind = "charge"
                   /\ i \in {act'.unit, act'.target}
                   /\ FGe(act'.roll * Scale, unit_distance(units, act'.unit, act'.target))]_vars

\* a unit still in_melee after its side's flag reset of turn 2, its charge
\* partner of the other side destroyed
C29_Witness ==
    /\ InPhase("Command") /\ state.turn = 2 /\ idx = 1
    /\ \E i \in UnitIds :
          /\ U(i).player_id = state.active_player
          /\ units[i].in_melee /\ Living(i)
          /\ \E e \in UnitIds :
                U(e).player_id # U(i).player_id /\ units[e].in_melee /\ ~Living(e)

\* the sum of models_killed over the shooting and melee events of a log
RECURSIVE LoggedKills(_)
LoggedKills(log) ==
    IF log = <<>> THEN 0
    ELSE (IF Head(log).event_type \in {"shooting", "melee"} THEN Head(log).models_killed ELSE 0)
         + LoggedKills(Tail(log))

\* the models the units of both armies have lost since the battle began
RECURSIVE ModelsLost(_)
ModelsLost(ids) ==
    IF ids = {} THEN 0
    ELSE LET i == CHOOSE x \in ids : TRUE
         IN  (U(i).model_count - models_remaining(units, i)) + ModelsLost(ids \ {i})

\* C30: at any point of a battle the models_killed of the logged shooting and
\* melee events sum to the models the units of both armies have lost.
C30_KillsAreConserved ==
    LoggedKills(battle_log) = ModelsLost(UnitIds)

\* kills were logged by a shooting event and by a melee event
C30_Witness ==
    /\ \E k \in 1..Len(battle_log) :
          battle_log[k].event_type = "shooting" /\ battle_log[k].models_killed > 0
    /\ \E k \in 1..Len(battle_log) :
          battle_log[k].event_type = "melee" /\ battle_log[k].models_killed > 0
    /\ ModelsLost(UnitIds) >= 2

\* a call of simulate_attack_sequence is in progress or has returned
Simulating == call.fn = "simulate_attack_sequence"

\* the damage loops of the current run are over
DamageStepDone == Simulating /\ call.result.step \in {"fnp", "allocate"}

\* C24: in one run the damage instances before Feel No Pain number the failed
\* saves plus all mortal wounds, where the critical wounds are exactly the
\* wound dice whose face is 6, Devastating Wounds gives one mortal wound per
\* critical wound and mortal-wounds-on-6 adds its N per critical wound; with
\* both rules active neither contribution is dropped.
C24_DamageInstances ==
    DamageStepDone =>
        /\ call.result.run.critical_wounds = call.result.run.sixes
        /\ Len(call.result.run.damage_before_fnp)
              = call.result.run.failed_saves
                + (IF sim_cfg.has_devastating_wounds THEN call.result.run.sixes ELSE 0)
                + sim_cfg.mortal_wounds_on_6 * call.result.run.sixes

\* C25: with Transhuman the threshold applied to every wound die is max(4, t),
\* t being the threshold without the rule (table, Anti-X cap, wound modifier,
\* clamp to 2..6): a die below 4 never wounds and a modifier that worsens t
\* above 4 still applies.
C25_TranshumanThreshold ==
    (Simulating /\ sim_cfg.transhuman /\ call.result.run.die.step = "wound") =>
        (call.result.run.die.counted
            <=> call.result.run.die.roll >= Max(4, modified_wound_requirement(sim_cfg)))

\* the dice a re-roll policy names, by the first roll
qualifies(policy, first, requirement) ==
    \/ policy = "all"
    \/ policy = "ones" /\ first = 1
    \/ policy = "failed" /\ first < requirement

\* the re-roll policy of the dice of a step
policy_of(step) ==
    IF step = "hit" THEN sim_cfg.reroll_hits
    ELSE IF step = "wound" THEN sim_cfg.reroll_wounds
    ELSE sim_cfg.reroll_saves

\* C26: under a re-roll policy a die is re-rolled (once) exactly when it
\* qualifies: under 'ones' a first roll of 1, under 'failed' a first roll below
\* the threshold, under 'all' every die; alike for hit, wound and save dice,
\* the wound dice of a Twin-Linked weapon (policy 'failed') included.
C26_RerollsOnlyQualifyingDice ==
    (Simulating /\ call.result.run.die.step \in {"hit", "wound", "save"}) =>
        (call.result.run.die.rerolled
            <=> qualifies(policy_of(call.result.run.die.step),
                          call.result.run.die.first, call.result.run.die.requirement))

\* the total of a list of damage instances
RECURSIVE SeqSum(_)
SeqSum(seq) == IF seq = <<>> THEN 0 ELSE Head(seq) + SeqSum(Tail(seq))

\* C27: with Feel No Pain t+ every point of damage gets its own D6; the point
\* is prevented exactly when the roll is >= t and otherwise goes through as 1
\* damage, so the damage remaining plus the points prevented is the damage
\* before Feel No Pain.
C27_FeelNoPain ==
    /\ (Simulating /\ call.result.run.die.step = "fnp") =>
          (call.result.run.die.counted <=> call.result.run.die.roll < sim_cfg.fnp)
    /\ (Simulating /\ call.result.step = "allocate" /\ sim_cfg.fnp > 0) =>
          Len(call.result.run.all_damage_instances) + call.result.run.fnp_saved_this_sim
              = SeqSum(call.result.run.damage_before_fnp)

\* the number of runs asked of the call in progress
num_simulations == call.args[2]

\* the defender's wound pool at the start of a run
full_pool == [k \in 1..sim_cfg.defender_squad_size |-> sim_cfg.wounds_per_model]

====
